---- MODULE Spec2Model ----
(***************************************************************************)
(* FlowState 15-minute logger: the entry store (services/db.ts), the time  *)
(* utilities (utils/timeUtils.ts) and the App handlers (App.tsx).          *)
(*                                                                         *)
(* Time is counted in seconds of local wall-clock time since local         *)
(* midnight of day 0; every day has 24 hours (no DST change).  Every code  *)
(* path that zeroes the seconds field of a Date zeroes its milliseconds    *)
(* too, so a Date is a whole number of seconds wherever it is stored.      *)
(* Strings are sequences of one-character strings.  The JavaScript value   *)
(* undefined is the one-element sequence Undefined.                        *)
(* Scores are counted in tenths.  The percentage of a bucket is an IEEE    *)
(* 754 double, carried digit by digit.                                     *)
(***************************************************************************)
EXTENDS Integers, Sequences, FiniteSets, TLC

VARIABLES
    logs,        \* localStorage[STORAGE_KEYS.LOGS], as db.getLogs() reads it
    tags,        \* localStorage[STORAGE_KEYS.TAGS], as db.getTags() reads it
    settings,    \* localStorage[STORAGE_KEYS.SETTINGS]: <<>> (no item) or <<record>>
    appLogs,     \* App state logs (useState), set by refreshData
    currentDate, \* App state currentDate: the day shown
    manualSelectedTimestamp,  \* App state: <<>> (null) or <<timestamp>>
    realTimeSlot,             \* App state: slot of the clock at its last refresh
    alarmActive, \* App state alarmActive
    now,         \* the wall clock, new Date() / Date.now()
    nextId,      \* number of ids crypto.randomUUID() has handed out
    input,       \* arguments of the pure function being applied
    output,      \* its result
    lastCall,    \* the operation that produced this state, with its arguments
    prevLogs     \* the stored entry collection when that operation started

storeVars == <<logs, tags, settings>>
appVars == <<appLogs, currentDate, manualSelectedTimestamp, realTimeSlot, alarmActive,
             now, nextId>>
pureVars == <<input, output>>
vars == <<storeVars, appVars, pureVars, lastCall, prevLogs>>

----------------------------------------------------------------------------
(* Units and bounds *)

Minute == 60
Hour == 60 * Minute
Day == 24 * Hour
SlotLen == 15 * Minute

NumSlots == 3        \* slot timestamps offered to direct saveLog calls
NumIds == 3          \* ids offered to direct saveLog / deleteLog calls

Undefined == <<"undefined">>

----------------------------------------------------------------------------
(* Dates: utils/timeUtils.ts.  A Date is its number of seconds. *)

getHours(d) == (d % Day) \div Hour
getMinutes(d) == (d % Hour) \div Minute
getSeconds(d) == d % Minute

\* startOfDay: d.setHours(0, 0, 0, 0).
startOfDay(d) == d - (d % Day)

\* setHours: d.setHours(hours) replaces the hour field; a value past 23 carries
\* into the next day.
setHours(d, hours) == d - getHours(d) * Hour + hours * Hour

\* setMinutes: d.setMinutes(minutes) replaces the minute field; a value past 59
\* carries into the next hour.
setMinutes(d, minutes) == d - getMinutes(d) * Minute + minutes * Minute

addMinutes(d, amount) == d + amount * Minute

\* Mutant of getDaySlots: the loop index starts at 1.
getDaySlotsFromOne(date, startHour, endHour) ==
    LET startTime == setHours(startOfDay(date), startHour)
        durationHours == IF endHour - startHour <= 0
                         THEN endHour - startHour + 24
                         ELSE endHour - startHour
        totalSlots == durationHours * 4
    IN  IF totalSlots <= 0 THEN <<>>
        ELSE [i \in 1..totalSlots |-> addMinutes(startTime, i * 15)]

\* Mutant of getDaySlots: only a negative duration wraps.
getDaySlotsStrictWrap(date, startHour, endHour) ==
    LET startTime == setHours(startOfDay(date), startHour)
        durationHours == IF endHour - startHour < 0
                         THEN endHour - startHour + 24
                         ELSE endHour - startHour
        totalSlots == durationHours * 4
    IN  IF totalSlots <= 0 THEN <<>>
        ELSE [i \in 1..totalSlots |-> addMinutes(startTime, (i - 1) * 15)]

\* getDaySlots: element i of the result is pushed by loop index i - 1.
getDaySlots(date, startHour, endHour) ==
    LET dayStart == startOfDay(date)
        startTime == setHours(dayStart, startHour)
        durationHours == IF endHour - startHour <= 0
                         THEN endHour - startHour + 24
                         ELSE endHour - startHour
        totalSlots == durationHours * 4
    IN  IF totalSlots <= 0 THEN <<>>
        ELSE [i \in 1..totalSlots |-> addMinutes(startTime, (i - 1) * 15)]

\* getCurrentSlotTimestamp applied to the clock value d.
getCurrentSlotTimestamp(d) ==
    LET minutes == getMinutes(d)
        remainder == minutes % 15
        roundedNow == setMinutes(d, minutes - remainder)
    IN  roundedNow - getSeconds(roundedNow)

----------------------------------------------------------------------------
(* Entry store: services/db.ts *)

Range(s) == {s[i] : i \in 1..Len(s)}

\* Array.prototype.findIndex on timestamp, 1-based; 0 when no element matches.
FindIndexByTimestamp(ls, ts) ==
    LET hits == {i \in 1..Len(ls) : ls[i].timestamp = ts}
    IN  IF hits = {} THEN 0 ELSE CHOOSE i \in hits : \A j \in hits : i <= j

\* Array.prototype.find on timestamp: <<>> when absent, <<entry>> when present.
FindByTimestamp(ls, ts) ==
    LET i == FindIndexByTimestamp(ls, ts)
    IN  IF i = 0 THEN <<>> ELSE <<ls[i]>>

\* One step of an insertion sort by the comparator a.timestamp - b.timestamp:
\* e goes behind every element of the sorted prefix that does not compare greater.
InsertSorted(sorted, e) ==
    LET k == Cardinality({i \in 1..Len(sorted) : sorted[i].timestamp <= e.timestamp})
    IN  SubSeq(sorted, 1, k) \o <<e>> \o SubSeq(sorted, k + 1, Len(sorted))

RECURSIVE SortFrom(_, _)
SortFrom(ls, acc) ==
    IF ls = <<>> THEN acc ELSE SortFrom(Tail(ls), InsertSorted(acc, Head(ls)))

\* newLogs.sort((a, b) => a.timestamp - b.timestamp): stable, ascending.
SortByTimestamp(ls) == SortFrom(ls, <<>>)

getLogs == logs

\* Mutant of saveLog: the entry is always appended.
saveLogAppend(ls, entry) == SortByTimestamp(Append(ls, entry))

\* Mutant of saveLog: an occupied timestamp keeps its old entry.
saveLogKeepOld(ls, entry) ==
    IF FindIndexByTimestamp(ls, entry.timestamp) > 0
    THEN ls
    ELSE SortByTimestamp(Append(ls, entry))

\* db.saveLog: the collection written back to STORAGE_KEYS.LOGS.
saveLog(ls, entry) ==
    LET existingIndex == FindIndexByTimestamp(ls, entry.timestamp)
        newLogs == IF existingIndex > 0
                   THEN [ls EXCEPT ![existingIndex] = entry]
                   ELSE Append(ls, entry)
    IN  SortByTimestamp(newLogs)

\* Mutant of deleteLog: logs.splice(logs.findIndex(l => l.id === id), 1).
deleteLogSplice(ls, id) ==
    LET hits == {i \in 1..Len(ls) : ls[i].id = id}
        k == IF hits = {} THEN Len(ls) ELSE CHOOSE i \in hits : \A j \in hits : i <= j
    IN  SubSeq(ls, 1, k - 1) \o SubSeq(ls, k + 1, Len(ls))

\* db.deleteLog: the collection written back to STORAGE_KEYS.LOGS.
deleteLog(ls, id) == SelectSeq(ls, LAMBDA l : l.id # id)

----------------------------------------------------------------------------
(* Strings *)

Whitespace == {" ", "\t", "\n"}
Digits == {"0", "1", "2", "3", "4", "5", "6", "7", "8", "9"}

RECURSIVE TrimStart(_)
TrimStart(str) ==
    IF str # <<>> /\ Head(str) \in Whitespace THEN TrimStart(Tail(str)) ELSE str

RECURSIVE TrimEnd(_)
TrimEnd(str) ==
    IF str # <<>> /\ str[Len(str)] \in Whitespace
    THEN TrimEnd(SubSeq(str, 1, Len(str) - 1))
    ELSE str

\* String.prototype.trim.
Trim(str) == TrimEnd(TrimStart(str))

DigitValue(c) ==
    CASE c = "0" -> 0 [] c = "1" -> 1 [] c = "2" -> 2 [] c = "3" -> 3 [] c = "4" -> 4
      [] c = "5" -> 5 [] c = "6" -> 6 [] c = "7" -> 7 [] c = "8" -> 8 [] c = "9" -> 9

RECURSIVE ToNumber(_)
\* Number(str) for a string of digits.
ToNumber(str) ==
    IF str = <<>> THEN 0
    ELSE 10 * ToNumber(SubSeq(str, 1, Len(str) - 1)) + DigitValue(str[Len(str)])

Letters ==
    {"a", "b", "c", "d", "e", "f", "g", "h", "i", "j", "k", "l", "m", "n", "o", "p", "q",
     "r", "s", "t", "u", "v", "w", "x", "y", "z", "A", "B", "C", "D", "E", "F", "G", "H",
     "I", "J", "K", "L", "M", "N", "O", "P", "Q", "R", "S", "T", "U", "V", "W", "X", "Y",
     "Z"}

\* The regular expression class \w.
WordChars == Letters \cup Digits \cup {"_"}

\* String.prototype.includes for a one-character needle.
Includes(str, c) == \E i \in 1..Len(str) : str[i] = c

RECURSIVE Split(_, _)
\* String.prototype.split for a one-character separator.
Split(str, c) ==
    LET at == {i \in 1..Len(str) : str[i] = c}
    IN  IF at = {} THEN <<str>>
        ELSE LET k == CHOOSE i \in at : \A j \in at : i <= j
             IN  <<SubSeq(str, 1, k - 1)>> \o Split(SubSeq(str, k + 1, Len(str)), c)

\* lines.map(l => l.trim()).
TrimAll(strs) == [i \in 1..Len(strs) |-> Trim(strs[i])]

----------------------------------------------------------------------------
(* Suggestion ranking: db.getWeightedSuggestions *)

DefaultLimit == 8

\* A property key that is a canonical array index: objects list these first, in
\* ascending numeric order, before the other keys in insertion order.
IsArrayIndex(key) ==
    /\ key # <<>>
    /\ \A i \in 1..Len(key) : key[i] \in Digits
    /\ (Len(key) > 1 => key[1] # "0")

\* Mutant of Multiplier: the 336..4320 hour band falls to zero.
MultiplierEarlyZero(age) ==
    IF age <= 48 * Hour THEN 10
    ELSE IF age <= 72 * Hour THEN 8
    ELSE IF age <= 168 * Hour THEN 2
    ELSE IF age <= 336 * Hour THEN 1
    ELSE 0

\* The multiplier of an entry of the given age (seconds), in tenths:
\* ageHours = (now - log.timestamp) / (1000 * 60 * 60) compared with the bands.
Multiplier(age) ==
    IF age <= 48 * Hour THEN 10
    ELSE IF age <= 72 * Hour THEN 8
    ELSE IF age <= 168 * Hour THEN 2
    ELSE IF age <= 336 * Hour THEN 1
    ELSE IF age > 4320 * Hour THEN 0
    ELSE 1

\* scores[desc] = (scores[desc] || 0) + value, on the object's ordered key list.
AddScore(scores, desc, value) ==
    LET at == {i \in 1..Len(scores) : scores[i].desc = desc}
    IN  IF at # {}
        THEN [i \in 1..Len(scores) |->
                IF i \in at THEN [desc |-> desc, score |-> scores[i].score + value]
                ELSE scores[i]]
        ELSE LET item == [desc |-> desc, score |-> value]
                 k == IF IsArrayIndex(desc)
                      THEN Cardinality({i \in 1..Len(scores) :
                               /\ IsArrayIndex(scores[i].desc)
                               /\ ToNumber(scores[i].desc) < ToNumber(desc)})
                      ELSE Len(scores)
             IN  SubSeq(scores, 1, k) \o <<item>> \o SubSeq(scores, k + 1, Len(scores))

RECURSIVE CalculateScores(_, _, _)
\* logs.forEach(log => ...): the scores after the entries of ls, starting from acc.
CalculateScores(ls, nowMs, acc) ==
    IF ls = <<>> THEN acc
    ELSE LET log == Head(ls)
             desc == Trim(log.description)
         IN  IF log.description = <<>> \/ log.description = Undefined \/ desc = <<>>
             THEN CalculateScores(Tail(ls), nowMs, acc)
             ELSE CalculateScores(Tail(ls), nowMs,
                      AddScore(acc, desc, Multiplier(nowMs - log.timestamp)))

\* One step of the stable sort by scoreB - scoreA: descending score.
InsertByScore(sorted, item) ==
    LET k == Cardinality({i \in 1..Len(sorted) : sorted[i].score >= item.score})
    IN  SubSeq(sorted, 1, k) \o <<item>> \o SubSeq(sorted, k + 1, Len(sorted))

RECURSIVE SortByScore(_, _)
SortByScore(items, acc) ==
    IF items = <<>> THEN acc
    ELSE SortByScore(Tail(items), InsertByScore(acc, Head(items)))

\* Array.prototype.slice(0, limit) for limit >= 0.
SliceFirst(s, limit) == IF Len(s) <= limit THEN s ELSE SubSeq(s, 1, limit)

\* db.getWeightedSuggestions(limit) over the stored entries ls at clock nowMs.
getWeightedSuggestions(ls, nowMs, limit) ==
    LET scores == CalculateScores(ls, nowMs, <<>>)
        sorted == SortByScore(scores, <<>>)
    IN  SliceFirst([i \in 1..Len(sorted) |-> sorted[i].desc], limit)

----------------------------------------------------------------------------
(* Text import: utils/timeUtils.ts parseImportText *)

\* The number of digits (2, 1, or 0 for no match) that \d{1,2} takes at the
\* start of a trimmed line matching /^(\d{1,2}:\d{2})\s+(.+)$/.
TimePrefix(line) ==
    LET Fits(k) ==
            /\ Len(line) >= k + 5
            /\ \A i \in 1..k : line[i] \in Digits
            /\ line[k + 1] = ":"
            /\ line[k + 2] \in Digits /\ line[k + 3] \in Digits
            /\ line[k + 4] \in Whitespace
    IN  IF Fits(2) THEN 2 ELSE IF Fits(1) THEN 1 ELSE 0

\* content.match(/#(\w+)/): the word after the first # that a word character
\* follows, or Undefined.
TagOf(content) ==
    LET at == {i \in 1..(Len(content) - 1) :
                  content[i] = "#" /\ content[i + 1] \in WordChars}
    IN  IF at = {} THEN Undefined
        ELSE LET k == CHOOSE i \in at : \A j \in at : i <= j
                 stop == {j \in (k + 1)..Len(content) : content[j] \notin WordChars}
                 end == IF stop = {} THEN Len(content)
                        ELSE (CHOOSE j \in stop : \A m \in stop : j <= m) - 1
             IN  SubSeq(content, k + 1, end)

\* The result pushed for one line: <<>> when the line is skipped.
ParseLine(line, baseDayStart) ==
    LET trimmed == Trim(line)
        k == TimePrefix(trimmed)
    IN  IF trimmed = <<>> \/ k = 0 THEN <<>>
        ELSE LET hours == ToNumber(SubSeq(trimmed, 1, k))
                 minutes == ToNumber(SubSeq(trimmed, k + 2, k + 3))
                 content == TrimStart(SubSeq(trimmed, k + 4, Len(trimmed)))
                 slotTime == setHours(setMinutes(baseDayStart, minutes), hours)
             IN  <<[timestamp |-> slotTime, description |-> content,
                    category |-> TagOf(content)]>>

RECURSIVE ParseLinesUntilBad(_, _)
\* Mutant of ParseLines: the loop ends at the first line that is skipped.
ParseLinesUntilBad(lines, baseDayStart) ==
    IF lines = <<>> \/ ParseLine(Head(lines), baseDayStart) = <<>> THEN <<>>
    ELSE ParseLine(Head(lines), baseDayStart)
             \o ParseLinesUntilBad(Tail(lines), baseDayStart)

RECURSIVE ParseLines(_, _)
ParseLines(lines, baseDayStart) ==
    IF lines = <<>> THEN <<>>
    ELSE ParseLine(Head(lines), baseDayStart) \o ParseLines(Tail(lines), baseDayStart)

\* parseImportText(text, baseDate).
parseImportText(text, baseDate) == ParseLines(Split(text, "\n"), startOfDay(baseDate))

----------------------------------------------------------------------------
(* Direct use of the store: any saveLog / deleteLog sequence from an empty store *)

StoreSlots == {9 * Hour + k * SlotLen : k \in 0..(NumSlots - 1)}
StoreIds == 1..NumIds
StoreContents ==
    {[description |-> <<"a">>, category |-> Undefined],
     [description |-> <<"b">>, category |-> <<"W">>]}

Entry(id, ts, description, category) ==
    [id |-> id, timestamp |-> ts, description |-> description, category |-> category]

StoreEntries ==
    {Entry(id, ts, c.description, c.category) :
        id \in StoreIds, ts \in StoreSlots, c \in StoreContents}

NoEntry == [id |-> 0, timestamp |-> 0, description |-> <<>>, category |-> Undefined]

Call(op, entry, id, stamps, ok) ==
    [op |-> op, entry |-> entry, id |-> id, stamps |-> stamps, ok |-> ok]

\* Empty localStorage.
InitStorage ==
    /\ logs = <<>>
    /\ tags = <<>>
    /\ settings = <<>>
    /\ lastCall = Call("init", NoEntry, 0, <<>>, TRUE)
    /\ prevLogs = <<>>

\* The App is not mounted: its state is never read.
InitNoApp ==
    /\ appLogs = <<>>
    /\ currentDate = 0
    /\ manualSelectedTimestamp = <<>>
    /\ realTimeSlot = 0
    /\ alarmActive = FALSE
    /\ now = 0
    /\ nextId = 0

InitNoPure ==
    /\ input = <<>>
    /\ output = <<>>

InitStore == InitStorage /\ InitNoApp /\ InitNoPure

SaveLog(entry) ==
    /\ logs' = saveLog(getLogs, entry)
    /\ lastCall' = Call("saveLog", entry, entry.id, <<entry.timestamp>>, TRUE)
    /\ prevLogs' = getLogs
    /\ UNCHANGED <<tags, settings, appVars, pureVars>>

DeleteLog(id) ==
    /\ logs' = deleteLog(getLogs, id)
    /\ lastCall' = Call("deleteLog", NoEntry, id, <<>>, TRUE)
    /\ prevLogs' = getLogs
    /\ UNCHANGED <<tags, settings, appVars, pureVars>>

NextStore ==
    \/ \E entry \in StoreEntries : SaveLog(entry)
    \/ \E id \in StoreIds : DeleteLog(id)

SpecStore == InitStore /\ [][NextStore]_vars

----------------------------------------------------------------------------
(* Tags, settings and backup: services/db.ts *)

TagLimit == 100

getTags == tags

RECURSIVE Dedup(_)
\* new Set(array) followed by Array.from: first occurrences, in order.
Dedup(s) ==
    IF s = <<>> THEN <<>>
    ELSE LET front == Dedup(SubSeq(s, 1, Len(s) - 1))
             last == s[Len(s)]
         IN  IF last \in Range(front) THEN front ELSE Append(front, last)

\* Array.prototype.slice(-n): the last n elements.
SliceLast(s, n) == IF Len(s) <= n THEN s ELSE SubSeq(s, Len(s) - n + 1, Len(s))

\* db.addTag: the list written back to STORAGE_KEYS.TAGS ("" is falsy: no write).
addTag(ts, description) ==
    IF description = <<>> THEN ts
    ELSE SliceLast(Dedup(Append(ts, description)), TagLimit)

DEFAULT_CATEGORIES ==
    <<<<"W", "o", "r", "k">>, <<"D", "e", "e", "p", " ", "W", "o", "r", "k">>,
      <<"M", "e", "e", "t", "i", "n", "g", "s">>, <<"E", "r", "r", "a", "n", "d", "s">>,
      <<"M", "i", "s", "c">>>>

\* DEFAULT_SETTINGS of constants.ts: the hours of a day with no saved setting.
CONST_DEFAULT == [startHour |-> 9, endHour |-> 17]

\* The object getSettings builds from the saved item (<<>> for {}, <<s>> for a
\* saved item, which sets startHour and endHour): the item merged with the
\* defaults.
SettingsFrom(saved) ==
    [startHour |-> IF saved # <<>> THEN saved[1].startHour ELSE CONST_DEFAULT.startHour,
     endHour |-> IF saved # <<>> THEN saved[1].endHour ELSE CONST_DEFAULT.endHour,
     categories |-> IF saved # <<>> /\ Len(saved[1].categories) > 0
                    THEN saved[1].categories
                    ELSE DEFAULT_CATEGORIES]

\* db.getSettings: the saved item merged with the defaults; with no item,
\* saved is {}.
getSettings == SettingsFrom(settings)

\* A parsed backup document.  An optional field is <<>> when absent and <<value>>
\* when present; logs, when present, is an array of entries.
Doc(parses, docLogs, docSettings, docTags) ==
    [parses |-> parses, logs |-> docLogs, settings |-> docSettings, tags |-> docTags]

\* Mutant of restoreData: settings and tags are written before logs is looked at.
restoreDataWritesFirst(doc) ==
    IF ~doc.parses
    THEN [ok |-> FALSE, logs |-> logs, settings |-> settings, tags |-> tags]
    ELSE [ok |-> doc.logs # <<>>,
          logs |-> IF doc.logs # <<>> THEN doc.logs[1] ELSE logs,
          settings |-> IF doc.settings # <<>> THEN doc.settings ELSE settings,
          tags |-> IF doc.tags # <<>> THEN doc.tags[1] ELSE tags]

\* Mutant of restoreData: setLocalStorage(STORAGE_KEYS.TAGS, data.tags || []).
restoreDataResetsTags(doc) ==
    IF ~doc.parses \/ doc.logs = <<>>
    THEN [ok |-> FALSE, logs |-> logs, settings |-> settings, tags |-> tags]
    ELSE [ok |-> TRUE,
          logs |-> doc.logs[1],
          settings |-> IF doc.settings # <<>> THEN doc.settings ELSE settings,
          tags |-> IF doc.tags # <<>> THEN doc.tags[1] ELSE <<>>]

\* Mutant of restoreData: if (!data.logs || !data.logs.length) throw.
restoreDataNeedsEntries(doc) ==
    IF ~doc.parses \/ doc.logs = <<>> \/ doc.logs = <<<<>>>>
    THEN [ok |-> FALSE, logs |-> logs, settings |-> settings, tags |-> tags]
    ELSE [ok |-> TRUE,
          logs |-> doc.logs[1],
          settings |-> IF doc.settings # <<>> THEN doc.settings ELSE settings,
          tags |-> IF doc.tags # <<>> THEN doc.tags[1] ELSE tags]

\* db.restoreData: the result and the three storage items after the call.
restoreData(doc) ==
    IF ~doc.parses \/ doc.logs = <<>>
    THEN [ok |-> FALSE, logs |-> logs, settings |-> settings, tags |-> tags]
    ELSE [ok |-> TRUE,
          logs |-> doc.logs[1],
          settings |-> IF doc.settings # <<>> THEN doc.settings ELSE settings,
          tags |-> IF doc.tags # <<>> THEN doc.tags[1] ELSE tags]

SettingsRecord(startHour, endHour, categories) ==
    [startHour |-> startHour, endHour |-> endHour, categories |-> categories]

BackupSettings ==
    {SettingsRecord(9, 17, <<<<"W">>, <<"M">>>>), SettingsRecord(22, 4, <<<<"W">>>>),
     SettingsRecord(8, 16, <<>>)}

BackupSlots == {9 * Hour, 9 * Hour + SlotLen}
BackupIds == {1, 2}
BackupEntries == {Entry(id, ts, <<"a">>, <<"W">>) : id \in BackupIds, ts \in BackupSlots}

BackupEarly == Entry(1, 9 * Hour, <<"a">>, <<"W">>)
BackupLate == Entry(2, 9 * Hour + SlotLen, <<"b">>, Undefined)

BackupDocs ==
    {Doc(FALSE, <<>>, <<>>, <<>>),
     Doc(TRUE, <<>>, <<SettingsRecord(22, 4, <<<<"W">>>>)>>, <<<<<<"a">>>>>>),
     Doc(TRUE, <<<<>>>>, <<>>, <<>>),
     Doc(TRUE, <<<<BackupEarly, BackupLate>>>>,
         <<SettingsRecord(9, 17, <<<<"W">>, <<"M">>>>)>>, <<<<<<"a">>, <<"b">>>>>>),
     Doc(TRUE, <<<<BackupLate, BackupEarly>>>>, <<>>, <<>>),
     Doc(TRUE, <<<<BackupLate>>>>, <<>>, <<<<>>>>),
     Doc(TRUE, <<<<BackupEarly>>>>, <<SettingsRecord(22, 4, <<<<"W">>>>)>>, <<>>)}

RestoreData(doc) ==
    LET r == restoreData(doc)
    IN  /\ logs' = r.logs
        /\ settings' = r.settings
        /\ tags' = r.tags
        /\ lastCall' = Call("restoreData", NoEntry, 0, <<>>, r.ok)
        /\ prevLogs' = getLogs
        /\ UNCHANGED <<appVars, pureVars>>

SaveSettings(s) ==
    /\ settings' = <<s>>
    /\ lastCall' = Call("saveSettings", NoEntry, 0, <<>>, TRUE)
    /\ prevLogs' = getLogs
    /\ UNCHANGED <<logs, tags, appVars, pureVars>>

AddTag(description) ==
    /\ tags' = addTag(getTags, description)
    /\ lastCall' = Call("addTag", NoEntry, 0, <<>>, TRUE)
    /\ prevLogs' = getLogs
    /\ UNCHANGED <<logs, settings, appVars, pureVars>>

\* One member of a JSON object text: a member whose value is undefined is left
\* out.
JSONmember(key, value) == IF value = Undefined THEN <<>> ELSE <<<<key, value>>>>

\* JSON.stringify of an entry: its members in property order.  id and
\* timestamp are always set.
JSONstringifyEntry(e) ==
    <<<<"id", e.id>>, <<"timestamp", e.timestamp>>>>
        \o JSONmember("description", e.description)
        \o JSONmember("category", e.category)

\* The value read from a member of a parsed object: undefined when it has none.
Property(members, key) ==
    LET at == {i \in 1..Len(members) : members[i][1] = key}
    IN  IF at = {} THEN Undefined ELSE members[CHOOSE i \in at : TRUE][2]

\* The entry that JSON.parse gives back, as the code reads its fields.
JSONparseEntry(members) ==
    Entry(Property(members, "id"), Property(members, "timestamp"),
          Property(members, "description"), Property(members, "category"))

\* db.exportData: the text of { logs, settings, tags }.
exportData ==
    [logs |-> [i \in 1..Len(getLogs) |-> JSONstringifyEntry(getLogs[i])],
     settings |-> getSettings,
     tags |-> getTags]

\* JSON.parse of an exported text.
JSONparseBackup(text) ==
    Doc(TRUE, <<[i \in 1..Len(text.logs) |-> JSONparseEntry(text.logs[i])]>>,
        <<text.settings>>, <<text.tags>>)

\* restoreData(exportData()).
RestoreExport ==
    LET r == restoreData(JSONparseBackup(exportData))
    IN  /\ logs' = r.logs
        /\ settings' = r.settings
        /\ tags' = r.tags
        /\ lastCall' = Call("restoreExport", NoEntry, 0, <<>>, r.ok)
        /\ prevLogs' = getLogs
        /\ UNCHANGED <<appVars, pureVars>>

NextBackup ==
    \/ \E entry \in BackupEntries : SaveLog(entry)
    \/ \E id \in BackupIds : DeleteLog(id)
    \/ \E doc \in BackupDocs : RestoreData(doc)
    \/ \E s \in BackupSettings : SaveSettings(s)
    \/ \E d \in {<<>>, <<"a">>, <<"c">>} : AddTag(d)
    \/ RestoreExport

SpecBackup == InitStore /\ [][NextBackup]_vars

----------------------------------------------------------------------------
(* getDaySlots applied to every day and every pair of hours *)

\* Hours of the day: a day starts at one of 0..23 and ends at one of 0..24.
StartHours == 0..23
EndHours == 0..24

SlotDates == {0, Day + 9 * Hour + 7 * Minute + 13, 2 * Day + 23 * Hour + 59 * Minute + 59}

InitSlots ==
    /\ InitStorage
    /\ InitNoApp
    /\ input \in [date : SlotDates, startHour : StartHours, endHour : EndHours]
    /\ output = <<>>

GetDaySlots ==
    /\ lastCall.op = "init"
    /\ output' = getDaySlots(input.date, input.startHour, input.endHour)
    /\ lastCall' = Call("getDaySlots", NoEntry, 0, <<>>, TRUE)
    /\ UNCHANGED <<storeVars, appVars, input, prevLogs>>

NextSlots == GetDaySlots

SpecSlots == InitSlots /\ [][NextSlots]_vars

----------------------------------------------------------------------------
(* getWeightedSuggestions applied to stores of entries of every age band *)

MaxRankLogs == 2

\* The clock: a quarter-hour instant of day 200, or one second later.
RankClock == 200 * Day + 10 * Hour
RankNows == {RankClock, RankClock + 1}

\* Entry ages in hours at RankClock, on both sides of every band limit.
RankAgeHours == {-1, 1, 48, 72, 168, 200, 336, 4320, 4321}

RankDescriptions == {<<>>, <<" ">>, <<"a">>, <<" ", "a">>, <<"b">>, <<"1">>}

RankEntries ==
    {Entry(1, RankClock - h * Hour, d, Undefined) :
        h \in RankAgeHours, d \in RankDescriptions}

\* Stores as saveLog leaves them: ascending, one entry per timestamp.
RankStores ==
    {ls \in UNION {[1..n -> RankEntries] : n \in 0..MaxRankLogs} :
        \A i \in 1..(Len(ls) - 1) : ls[i].timestamp < ls[i + 1].timestamp}

RankLimits == {1, 2, DefaultLimit}

InitRank ==
    /\ logs \in RankStores
    /\ tags = <<>>
    /\ settings = <<>>
    /\ lastCall = Call("init", NoEntry, 0, <<>>, TRUE)
    /\ prevLogs = <<>>
    /\ InitNoApp
    /\ input \in [now : RankNows, limit : RankLimits]
    /\ output = <<>>

GetWeightedSuggestions ==
    /\ lastCall.op = "init"
    /\ output' = [scores |-> CalculateScores(getLogs, input.now, <<>>),
                  result |-> getWeightedSuggestions(getLogs, input.now, input.limit)]
    /\ lastCall' = Call("getWeightedSuggestions", NoEntry, 0, <<>>, TRUE)
    /\ UNCHANGED <<storeVars, appVars, input, prevLogs>>

NextRank == GetWeightedSuggestions

SpecRank == InitRank /\ [][NextRank]_vars

----------------------------------------------------------------------------
(* The App: App.tsx handlers over the store *)

MaxNewIds == 3       \* ids crypto.randomUUID() may hand out in one run
MaxClickSlots == 1   \* slots of the day's grid offered to clicks

\* addDays: d.setDate(d.getDate() + amount).
addDays(d, amount) == d + amount * Day

\* The App is opened at 09:07:30 of day 1.
AppStart == Day + 9 * Hour + 7 * Minute + 30
AppClockEnd == AppStart + 450
TickSteps == {450}

SubmitTexts == {<<"a">>, <<"b", "\n", " ", "\n", " ", "a">>}
SubmitCategories == {Undefined, <<"W", "o", "r", "k">>}

ImportTexts ==
    {<<"9", ":", "0", "7", " ", "b", " ", "#", "W", "o", "r", "k">>,
     <<"n", "o", "t", "e", "\n", "0", "9", ":", "1", "5", " ", " ", "a", "#", "\n",
       "0", "9", ":", "0", "0", " ", "b">>}

activeTimestamp ==
    IF manualSelectedTimestamp # <<>> THEN manualSelectedTimestamp[1] ELSE realTimeSlot

\* Mutant of activeSlotLog: the first entry of the list, whatever its slot.
activeSlotLogFirst == IF appLogs = <<>> THEN <<>> ELSE <<appLogs[1]>>

\* activeSlotLog: logs.find(l => l.timestamp === activeTimestamp).
activeSlotLog == FindByTimestamp(appLogs, activeTimestamp)

\* The timestamps of timeSlots: the grid of the day shown.
rawSlots == getDaySlots(currentDate, getSettings.startHour, getSettings.endHour)

ClickSlots == {rawSlots[i] : i \in 1..MaxClickSlots} \cap Range(rawSlots)

\* Mutant of timeSlots: logs.find(l => l.timestamp >= ts).
timeSlotsAtOrAfter ==
    [i \in 1..Len(rawSlots) |->
        [timestamp |-> rawSlots[i],
         log |-> LET hits == {j \in 1..Len(appLogs) : appLogs[j].timestamp >= rawSlots[i]}
                 IN  IF hits = {} THEN <<>>
                     ELSE <<appLogs[CHOOSE j \in hits : \A k \in hits : j <= k]>>]]

\* timeSlots: one slot per timestamp of the grid, with the entry found for it.
timeSlots ==
    [i \in 1..Len(rawSlots) |->
        [timestamp |-> rawSlots[i], log |-> FindByTimestamp(appLogs, rawSlots[i])]]

NonEmpty(strs) == SelectSeq(strs, LAMBDA l : l # <<>>)

\* text.split('\n').map(l => l.trim()).filter(l => l).
BulkLines(text) == NonEmpty(TrimAll(Split(text, "\n")))

RECURSIVE SaveBulkOneSlot(_, _, _, _, _)
\* Mutant of SaveBulk: currentTs is not moved on after a line.
SaveBulkOneSlot(ls, lines, currentTs, lastId, category) ==
    IF lines = <<>> THEN ls
    ELSE SaveBulkOneSlot(saveLog(ls, Entry(lastId + 1, currentTs, Head(lines), category)),
                         Tail(lines), currentTs, lastId + 1, category)

RECURSIVE SaveBulk(_, _, _, _, _)
\* lines.forEach: one saveLog per line with a fresh id, 15 minutes apart.
SaveBulk(ls, lines, currentTs, lastId, category) ==
    IF lines = <<>> THEN ls
    ELSE SaveBulk(saveLog(ls, Entry(lastId + 1, currentTs, Head(lines), category)),
                  Tail(lines), currentTs + 15 * Minute, lastId + 1, category)

RECURSIVE SaveParsed(_, _, _)
\* parsed.forEach: one saveLog per parsed line with a fresh id.
SaveParsed(ls, parsed, lastId) ==
    IF parsed = <<>> THEN ls
    ELSE LET p == Head(parsed)
         IN  SaveParsed(saveLog(ls, Entry(lastId + 1, p.timestamp, p.description,
                                          p.category)),
                        Tail(parsed), lastId + 1)

InitApp ==
    /\ logs = <<>>
    /\ tags = <<>>
    /\ settings = <<SettingsRecord(9, 17, DEFAULT_CATEGORIES)>>
    /\ lastCall = Call("init", NoEntry, 0, <<>>, TRUE)
    /\ prevLogs = <<>>
    /\ now = AppStart
    /\ appLogs = <<>>
    /\ currentDate = now
    /\ manualSelectedTimestamp = <<>>
    /\ realTimeSlot = getCurrentSlotTimestamp(now)
    /\ alarmActive = FALSE
    /\ nextId = 0
    /\ InitNoPure

\* The clock moves on.
Tick ==
    /\ \E d \in TickSteps : now + d <= AppClockEnd /\ now' = now + d
    /\ lastCall' = Call("tick", NoEntry, 0, <<>>, TRUE)
    /\ prevLogs' = getLogs
    /\ UNCHANGED <<storeVars, appLogs, currentDate, manualSelectedTimestamp,
                   realTimeSlot, alarmActive, nextId, pureVars>>

\* The 30 second timer: setRealTimeSlot(getCurrentSlotTimestamp()).
RefreshRealTimeSlot ==
    /\ realTimeSlot' = getCurrentSlotTimestamp(now)
    /\ lastCall' = Call("setRealTimeSlot", NoEntry, 0, <<>>, TRUE)
    /\ prevLogs' = getLogs
    /\ UNCHANGED <<storeVars, appLogs, currentDate, manualSelectedTimestamp,
                   alarmActive, now, nextId, pureVars>>

\* A click on a slot of the grid: setManualSelectedTimestamp(s.timestamp).
SelectSlot(ts) ==
    /\ ts \in ClickSlots
    /\ manualSelectedTimestamp' = <<ts>>
    /\ lastCall' = Call("setManualSelectedTimestamp", NoEntry, 0, <<ts>>, TRUE)
    /\ prevLogs' = getLogs
    /\ UNCHANGED <<storeVars, appLogs, currentDate, realTimeSlot, alarmActive, now,
                   nextId, pureVars>>

\* handleLogSubmit, bulk branch: text holds a newline.
HandleLogSubmitBulk(text, category) ==
    LET lines == BulkLines(text)
        currentTs == activeTimestamp + Len(lines) * 15 * Minute
    IN  /\ Includes(text, "\n")
        /\ nextId + Len(lines) <= MaxNewIds
        /\ logs' = SaveBulk(getLogs, lines, activeTimestamp, nextId, category)
        /\ nextId' = nextId + Len(lines)
        /\ appLogs' = logs'
        /\ manualSelectedTimestamp' = <<currentTs>>
        /\ lastCall' = Call("handleLogSubmit", NoEntry, 0,
                            [i \in 1..Len(lines) |->
                                activeTimestamp + (i - 1) * 15 * Minute], TRUE)
        /\ prevLogs' = getLogs
        /\ UNCHANGED <<tags, settings, currentDate, realTimeSlot, alarmActive, now,
                       pureVars>>

\* handleLogSubmit, single line.
HandleLogSubmitSingle(text, category) ==
    LET finalCategory == IF category = Undefined \/ category = <<>> THEN text ELSE category
        fresh == activeSlotLog = <<>>
        newEntry == Entry(IF fresh THEN nextId + 1 ELSE activeSlotLog[1].id,
                          activeTimestamp, text, finalCategory)
    IN  /\ ~Includes(text, "\n")
        /\ fresh => nextId + 1 <= MaxNewIds
        /\ logs' = saveLog(getLogs, newEntry)
        /\ tags' = addTag(getTags, finalCategory)
        /\ nextId' = IF fresh THEN nextId + 1 ELSE nextId
        /\ appLogs' = logs'
        /\ manualSelectedTimestamp' = <<activeTimestamp + 15 * Minute>>
        /\ alarmActive' = FALSE
        /\ lastCall' = Call("handleLogSubmit", newEntry, newEntry.id,
                            <<activeTimestamp>>, TRUE)
        /\ prevLogs' = getLogs
        /\ UNCHANGED <<settings, currentDate, realTimeSlot, now, pureVars>>

HandleLogSubmit(text, category) ==
    \/ HandleLogSubmitBulk(text, category)
    \/ HandleLogSubmitSingle(text, category)

\* handleLogDelete: offered when the active slot holds an entry.
HandleLogDelete ==
    /\ activeSlotLog # <<>>
    /\ logs' = deleteLog(getLogs, activeSlotLog[1].id)
    /\ appLogs' = logs'
    /\ manualSelectedTimestamp' = <<>>
    /\ lastCall' = Call("handleLogDelete", NoEntry, activeSlotLog[1].id, <<>>, TRUE)
    /\ prevLogs' = getLogs
    /\ UNCHANGED <<tags, settings, currentDate, realTimeSlot, alarmActive, now, nextId,
                   pureVars>>

\* handleClearSlot(slot) for a slot of the grid that holds an entry.
HandleClearSlot(ts) ==
    LET log == FindByTimestamp(appLogs, ts)
    IN  /\ ts \in ClickSlots
        /\ log # <<>>
        /\ logs' = deleteLog(getLogs, log[1].id)
        /\ appLogs' = logs'
        /\ lastCall' = Call("handleClearSlot", NoEntry, log[1].id, <<>>, TRUE)
        /\ prevLogs' = getLogs
        /\ UNCHANGED <<tags, settings, currentDate, manualSelectedTimestamp,
                       realTimeSlot, alarmActive, now, nextId, pureVars>>

\* handleImportText with the pasted text.
HandleImportText(importText) ==
    LET parsed == parseImportText(importText, currentDate)
    IN  /\ nextId + Len(parsed) <= MaxNewIds
        /\ logs' = SaveParsed(getLogs, parsed, nextId)
        /\ nextId' = nextId + Len(parsed)
        /\ appLogs' = logs'
        /\ lastCall' = Call("handleImportText", NoEntry, 0,
                            [i \in 1..Len(parsed) |-> parsed[i].timestamp], TRUE)
        /\ prevLogs' = getLogs
        /\ UNCHANGED <<tags, settings, currentDate, manualSelectedTimestamp,
                       realTimeSlot, alarmActive, now, pureVars>>

Init == InitApp

\* One day of use: the day shown stays the day the App was opened on.
Next ==
    \/ Tick
    \/ RefreshRealTimeSlot
    \/ \E ts \in ClickSlots : SelectSlot(ts)
    \/ \E text \in SubmitTexts, category \in SubmitCategories :
          HandleLogSubmit(text, category)
    \/ HandleLogDelete
    \/ \E ts \in ClickSlots : HandleClearSlot(ts)
    \/ \E importText \in ImportTexts : HandleImportText(importText)

Spec == Init /\ [][Next]_vars

----------------------------------------------------------------------------
(* The App with its settings dialog: updateSetting next to logging *)

\* Hours the dialog is set to: a later start, an end that leaves one hour, and
\* an end equal to the start.
StartHourValues == {9, 10}
EndHourValues == {10, 17}

\* Category lists the dialog can leave: the first category renamed, the first
\* category deleted.
RenamedCategories == [DEFAULT_CATEGORIES EXCEPT ![1] = <<"J", "o", "b">>]
DeletedCategories == Tail(DEFAULT_CATEGORIES)

SettingValues ==
    [startHour |-> StartHourValues,
     endHour |-> EndHourValues,
     categories |-> {DEFAULT_CATEGORIES, RenamedCategories, DeletedCategories}]

\* updateSetting(key, val): newSettings = { ...settings, [key]: val } goes to
\* the App state and to db.saveSettings.
UpdateSetting(key, val) ==
    /\ val # getSettings[key]
    /\ settings' = <<[getSettings EXCEPT ![key] = val]>>
    /\ lastCall' = Call("updateSetting", NoEntry, 0, <<>>, TRUE)
    /\ prevLogs' = getLogs
    /\ UNCHANGED <<logs, tags, appVars, pureVars>>

NextSettings ==
    \/ \E ts \in ClickSlots : SelectSlot(ts)
    \/ HandleLogSubmitSingle(<<"a">>, Undefined)
    \/ \E key \in DOMAIN SettingValues : \E val \in SettingValues[key] :
          UpdateSetting(key, val)

SpecSettings == InitApp /\ [][NextSettings]_vars

----------------------------------------------------------------------------
(* The App with its alarm: the quarter-hour check next to logging *)

\* The callback of the alarm's one-second timer, which runs while
\* notifications are enabled, in a second :00 of minute 0, 15, 30 or 45.
\* muted stands for settings.muteUntil lying in the future.
AlarmCheck(muted) ==
    /\ getMinutes(now) % 15 = 0
    /\ getSeconds(now) = 0
    /\ realTimeSlot' = getCurrentSlotTimestamp(now)
    /\ LET ts == getCurrentSlotTimestamp(now)
           prevTs == ts - 15 * Minute
           prevLog == FindByTimestamp(appLogs, prevTs)
       IN  alarmActive' = IF ~muted /\ prevLog = <<>> THEN TRUE ELSE alarmActive
    /\ lastCall' = Call("alarmCheck", NoEntry, 0, <<>>, ~muted)
    /\ prevLogs' = getLogs
    /\ UNCHANGED <<storeVars, appLogs, currentDate, manualSelectedTimestamp, now, nextId,
                   pureVars>>

NextAlarm ==
    \/ Tick
    \/ \E muted \in BOOLEAN : AlarmCheck(muted)
    \/ \E ts \in ClickSlots : SelectSlot(ts)
    \/ \E text \in SubmitTexts, category \in SubmitCategories :
          HandleLogSubmit(text, category)
    \/ HandleLogDelete

SpecAlarm == InitApp /\ [][NextAlarm]_vars

----------------------------------------------------------------------------
(* Category lookup: db.findLastCategoryForText *)

UpperCase ==
    <<"A", "B", "C", "D", "E", "F", "G", "H", "I", "J", "K", "L", "M", "N", "O", "P", "Q",
      "R", "S", "T", "U", "V", "W", "X", "Y", "Z">>
LowerCase ==
    <<"a", "b", "c", "d", "e", "f", "g", "h", "i", "j", "k", "l", "m", "n", "o", "p", "q",
      "r", "s", "t", "u", "v", "w", "x", "y", "z">>

\* String.prototype.toLowerCase.
ToLowerCase(str) ==
    [i \in 1..Len(str) |->
        IF \E k \in 1..Len(UpperCase) : UpperCase[k] = str[i]
        THEN LowerCase[CHOOSE k \in 1..Len(UpperCase) : UpperCase[k] = str[i]]
        ELSE str[i]]

\* [...array].reverse().
Reverse(s) == [i \in 1..Len(s) |-> s[Len(s) + 1 - i]]

\* const thirtyDays = 30 * 24 * 60 * 60 * 1000.
ThirtyDays == 30 * Day

\* A value that is truthy as a string: neither undefined nor "".
Truthy(str) == str # Undefined /\ str # <<>>

RECURSIVE ScanForCategory(_, _, _)
\* for (const log of logs): the value returned from the loop, or after it.
ScanForCategory(rs, cleanText, nowMs) ==
    IF rs = <<>> THEN Undefined
    ELSE LET log == Head(rs)
         IN  IF nowMs - log.timestamp > ThirtyDays THEN Undefined
             ELSE IF /\ Truthy(log.description)
                     /\ ToLowerCase(log.description) = cleanText
                     /\ Truthy(log.category)
                  THEN log.category
                  ELSE ScanForCategory(Tail(rs), cleanText, nowMs)

\* Mutant of findLastCategoryForText: the 30 day limit is not applied.
findLastCategoryNoLimit(ls, text, nowMs) ==
    IF text = <<>> \/ Trim(text) = <<>> THEN Undefined
    ELSE ScanForCategory(Reverse(ls), ToLowerCase(Trim(text)), 0)

\* Mutant of findLastCategoryForText: the entries are scanned oldest first.
findLastCategoryOldestFirst(ls, text, nowMs) ==
    IF text = <<>> \/ Trim(text) = <<>> THEN Undefined
    ELSE ScanForCategory(ls, ToLowerCase(Trim(text)), nowMs)

\* db.findLastCategoryForText(text) over the stored entries ls at clock nowMs.
findLastCategoryForText(ls, text, nowMs) ==
    IF text = <<>> \/ Trim(text) = <<>> THEN Undefined
    ELSE ScanForCategory(Reverse(ls), ToLowerCase(Trim(text)), nowMs)

MaxCategoryLogs == 2

CategoryClock == 100 * Day + 10 * Hour

\* Entry ages at CategoryClock: 5 days, exactly 30 days, 30 days and a second.
CategoryAges == {5 * Day, ThirtyDays, ThirtyDays + 1}

CategoryDescriptions == {<<"a">>, <<"A">>, <<" ", "a">>}
CategoryNames == {Undefined, <<>>, <<"W">>, <<"M">>}
CategoryTexts == {<<>>, <<" ">>, <<" ", "A", " ">>, <<"b">>}

CategoryEntries ==
    {Entry(1, CategoryClock - age, d, c) :
        age \in CategoryAges, d \in CategoryDescriptions, c \in CategoryNames}

\* Any stored array: restoreData writes entries in the order of the document.
CategoryStores == UNION {[1..n -> CategoryEntries] : n \in 0..MaxCategoryLogs}

InitCategory ==
    /\ logs \in CategoryStores
    /\ tags = <<>>
    /\ settings = <<>>
    /\ lastCall = Call("init", NoEntry, 0, <<>>, TRUE)
    /\ prevLogs = <<>>
    /\ InitNoApp
    /\ input \in [text : CategoryTexts, now : {CategoryClock}]
    /\ output = <<>>

FindLastCategoryForText ==
    /\ lastCall.op = "init"
    /\ output' = findLastCategoryForText(getLogs, input.text, input.now)
    /\ lastCall' = Call("findLastCategoryForText", NoEntry, 0, <<>>, TRUE)
    /\ UNCHANGED <<storeVars, appVars, input, prevLogs>>

NextCategory == FindLastCategoryForText

SpecCategory == InitCategory /\ [][NextCategory]_vars

----------------------------------------------------------------------------
(* Statistics: getStatsForRange of StatsView *)

\* endOfDay: d.setHours(23, 59, 59, 999), to the second.
endOfDay(d) == startOfDay(d) + Day - 1

\* isWithinInterval: both ends belong to the interval.
isWithinInterval(time, startTime, endTime) == time >= startTime /\ time <= endTime

UNCATEGORIZED == <<"U", "n", "c", "a", "t", "e", "g", "o", "r", "i", "z", "e", "d">>

\* The property names every object literal inherits from Object.prototype: a
\* read of catGroups[name] finds a function (or the prototype itself) there.
ObjectPrototypeKeys ==
    {<<"c", "o", "n", "s", "t", "r", "u", "c", "t", "o", "r">>,
     <<"h", "a", "s", "O", "w", "n", "P", "r", "o", "p", "e", "r", "t", "y">>,
     <<"i", "s", "P", "r", "o", "t", "o", "t", "y", "p", "e", "O", "f">>,
     <<"p", "r", "o", "p", "e", "r", "t", "y", "I", "s", "E", "n", "u", "m", "e", "r",
       "a", "b", "l", "e">>,
     <<"t", "o", "L", "o", "c", "a", "l", "e", "S", "t", "r", "i", "n", "g">>,
     <<"t", "o", "S", "t", "r", "i", "n", "g">>,
     <<"v", "a", "l", "u", "e", "O", "f">>,
     <<"_", "_", "p", "r", "o", "t", "o", "_", "_">>,
     <<"_", "_", "d", "e", "f", "i", "n", "e", "G", "e", "t", "t", "e", "r", "_", "_">>,
     <<"_", "_", "d", "e", "f", "i", "n", "e", "S", "e", "t", "t", "e", "r", "_", "_">>,
     <<"_", "_", "l", "o", "o", "k", "u", "p", "G", "e", "t", "t", "e", "r", "_", "_">>,
     <<"_", "_", "l", "o", "o", "k", "u", "p", "S", "e", "t", "t", "e", "r", "_", "_">>}

\* catGroups[name] = { mins: 0, ... } on the object's ordered key list: a key
\* that exists keeps its place, a new array-index key goes before the others.
SetGroup(groups, name) ==
    LET at == {i \in 1..Len(groups) : groups[i].name = name}
        item == [name |-> name, mins |-> 0]
    IN  IF at # {}
        THEN [i \in 1..Len(groups) |-> IF i \in at THEN item ELSE groups[i]]
        ELSE LET k == IF IsArrayIndex(name)
                      THEN Cardinality({i \in 1..Len(groups) :
                               /\ IsArrayIndex(groups[i].name)
                               /\ ToNumber(groups[i].name) < ToNumber(name)})
                      ELSE Len(groups)
             IN  SubSeq(groups, 1, k) \o <<item>> \o SubSeq(groups, k + 1, Len(groups))

RECURSIVE InitGroups(_, _)
\* categories.forEach(cat => catGroups[cat.name] = ...).
InitGroups(categories, acc) ==
    IF categories = <<>> THEN acc
    ELSE InitGroups(Tail(categories), SetGroup(acc, Head(categories)))

HasOwnGroup(groups, name) == \E i \in 1..Len(groups) : groups[i].name = name

\* The truthiness of catGroups[name]: an own group, or an inherited property.
GroupLookup(groups, name) == HasOwnGroup(groups, name) \/ name \in ObjectPrototypeKeys

\* targetGroupName of one entry.
TargetGroupName(groups, log) ==
    IF Truthy(log.category) /\ GroupLookup(groups, log.category)
    THEN log.category
    ELSE UNCATEGORIZED

\* One round of filtered.forEach.  catGroups[target].tasks[desc] raises a
\* TypeError when the target is an inherited property, which has no tasks; the
\* loop and the whole aggregation end there.
AddToGroup(acc, log) ==
    LET target == TargetGroupName(acc.groups, log)
    IN  IF acc.threw \/ ~HasOwnGroup(acc.groups, target)
        THEN [acc EXCEPT !.threw = TRUE]
        ELSE [acc EXCEPT
                 !.groups = [i \in 1..Len(acc.groups) |->
                                IF acc.groups[i].name = target
                                THEN [acc.groups[i] EXCEPT !.mins = @ + 15]
                                ELSE acc.groups[i]],
                 !.totalMinutes = @ + 15]

RECURSIVE AddAll(_, _)
AddAll(acc, filtered) ==
    IF filtered = <<>> THEN acc ELSE AddAll(AddToGroup(acc, Head(filtered)), Tail(filtered))

\* One step of the stable sort by b.value - a.value: descending minutes.
InsertByValue(sorted, item) ==
    LET k == Cardinality({i \in 1..Len(sorted) : sorted[i].value >= item.value})
    IN  SubSeq(sorted, 1, k) \o <<item>> \o SubSeq(sorted, k + 1, Len(sorted))

RECURSIVE SortByValue(_, _)
SortByValue(items, acc) ==
    IF items = <<>> THEN acc
    ELSE SortByValue(Tail(items), InsertByValue(acc, Head(items)))

\* getStatsForRange(rangeStart, rangeEnd) over the entries ls and the configured
\* category names: the buckets (name and minutes) and the total, or the fact
\* that the call raised.  The per-description breakdown, the percentage and the
\* colour of a bucket are not part of this result.
getStatsForRange(ls, rangeStart, rangeEnd, categories) ==
    LET filtered == SelectSeq(ls, LAMBDA log :
                        isWithinInterval(log.timestamp, rangeStart, rangeEnd))
        catGroups == SetGroup(InitGroups(categories, <<>>), UNCATEGORIZED)
        done == AddAll([groups |-> catGroups, totalMinutes |-> 0, threw |-> FALSE],
                       filtered)
        shown == SelectSeq(done.groups, LAMBDA g : g.mins > 0)
        data == SortByValue([i \in 1..Len(shown) |->
                                [name |-> shown[i].name, value |-> shown[i].mins]], <<>>)
    IN  IF done.threw
        THEN [threw |-> TRUE, data |-> <<>>, totalMinutes |-> 0]
        ELSE [threw |-> FALSE, data |-> data, totalMinutes |-> done.totalMinutes]

MaxStatsLogs == 2

\* The day whose statistics are shown.
StatsDate == 10 * Day + 14 * Hour + 20 * Minute

\* Entry times: the last slot of the day before, three slots of the day, and
\* midnight of the day after.
StatsSlots ==
    {10 * Day - SlotLen, 10 * Day, 10 * Day + 9 * Hour, 11 * Day - SlotLen, 11 * Day}

\* Entry contents: no category, an empty one, configured ones, a removed one,
\* descriptions that were stored as the category, and a category named "1".
StatsContents ==
    {[description |-> <<"a">>, category |-> Undefined],
     [description |-> <<"a">>, category |-> <<>>],
     [description |-> <<"a">>, category |-> <<"W">>],
     [description |-> <<"b">>, category |-> <<"M">>],
     [description |-> <<"b">>, category |-> <<"b">>],
     [description |-> <<"b">>, category |-> <<"1">>],
     [description |-> UNCATEGORIZED, category |-> UNCATEGORIZED],
     [description |-> <<"c", "o", "n", "s", "t", "r", "u", "c", "t", "o", "r">>,
      category |-> <<"c", "o", "n", "s", "t", "r", "u", "c", "t", "o", "r">>]}

StatsEntries ==
    {Entry(1, ts, c.description, c.category) : ts \in StatsSlots, c \in StatsContents}

StatsStores == UNION {[1..n -> StatsEntries] : n \in 0..MaxStatsLogs}

StatsCategories == {<<>>, <<<<"W">>>>, <<<<"M">>, <<"W">>>>, <<<<"W">>, <<"1">>>>}

InitStats ==
    /\ logs \in StatsStores
    /\ tags = <<>>
    /\ settings = <<>>
    /\ lastCall = Call("init", NoEntry, 0, <<>>, TRUE)
    /\ prevLogs = <<>>
    /\ InitNoApp
    /\ input \in [start : {startOfDay(StatsDate)}, end : {endOfDay(StatsDate)},
                  categories : StatsCategories]
    /\ output = <<>>

GetStatsForRange ==
    /\ lastCall.op = "init"
    /\ output' = getStatsForRange(getLogs, input.start, input.end, input.categories)
    /\ lastCall' = Call("getStatsForRange", NoEntry, 0, <<>>, TRUE)
    /\ UNCHANGED <<storeVars, appVars, input, prevLogs>>

NextStats == GetStatsForRange

SpecStats == InitStats /\ [][NextStats]_vars

----------------------------------------------------------------------------
(* The percentage of a bucket: IEEE 754 double-precision arithmetic *)

\* A natural number of any size as its digits to the base 2^LimbBits, least
\* significant first, without leading zeros.
LimbBits == 13
Base == 2^LimbBits

RECURSIVE BigOf(_)
BigOf(n) == IF n = 0 THEN <<>> ELSE <<n % Base>> \o BigOf(n \div Base)

RECURSIVE BigAdd(_, _, _)
BigAdd(a, b, carry) ==
    IF a = <<>> /\ b = <<>> THEN BigOf(carry)
    ELSE LET x == IF a = <<>> THEN 0 ELSE Head(a)
             y == IF b = <<>> THEN 0 ELSE Head(b)
             t == x + y + carry
         IN  <<t % Base>> \o BigAdd(IF a = <<>> THEN <<>> ELSE Tail(a),
                                    IF b = <<>> THEN <<>> ELSE Tail(b), t \div Base)

RECURSIVE BigTimesDigit(_, _, _)
\* a * d + carry for a digit d > 0.
BigTimesDigit(a, d, carry) ==
    IF a = <<>> THEN BigOf(carry)
    ELSE LET t == Head(a) * d + carry
         IN  <<t % Base>> \o BigTimesDigit(Tail(a), d, t \div Base)

RECURSIVE BigMul(_, _)
BigMul(a, b) ==
    IF a = <<>> \/ b = <<>> THEN <<>>
    ELSE LET rest == BigMul(a, Tail(b))
             shifted == IF rest = <<>> THEN <<>> ELSE <<0>> \o rest
         IN  IF Head(b) = 0 THEN shifted
             ELSE BigAdd(BigTimesDigit(a, Head(b), 0), shifted, 0)

BigLeq(a, b) ==
    \/ a = b
    \/ Len(a) < Len(b)
    \/ /\ Len(a) = Len(b)
       /\ \E i \in 1..Len(a) :
             a[i] < b[i] /\ \A j \in (i + 1)..Len(a) : a[j] = b[j]

\* The number of binary digits of a.
BigBitLen(a) ==
    IF a = <<>> THEN 0
    ELSE LimbBits * (Len(a) - 1)
            + (CHOOSE k \in 1..LimbBits : 2^(k - 1) <= a[Len(a)] /\ a[Len(a)] < 2^k)

\* Binary digit i of a, the lowest being digit 1.
BigBit(a, i) == (a[(i - 1) \div LimbBits + 1] \div 2^((i - 1) % LimbBits)) % 2

\* Whether one of the lowest d binary digits of a is 1.
BigLowBits(a, d) ==
    \/ \E i \in 1..(d \div LimbBits) : a[i] # 0
    \/ d % LimbBits # 0 /\ a[d \div LimbBits + 1] % 2^(d % LimbBits) # 0

\* a * 2^d.
BigShiftLeft(a, d) ==
    IF a = <<>> THEN <<>>
    ELSE [i \in 1..(d \div LimbBits) |-> 0] \o BigTimesDigit(a, 2^(d % LimbBits), 0)

\* a \div 2^d, for d below the number of binary digits of a.
BigShiftRight(a, d) ==
    LET r == SubSeq(a, d \div LimbBits + 1, Len(a))
        s == d % LimbBits
        moved == [i \in 1..Len(r) |->
                     r[i] \div 2^s
                         + (IF i < Len(r) THEN (r[i + 1] % 2^s) * 2^(LimbBits - s) ELSE 0)]
    IN  IF moved[Len(moved)] = 0 THEN SubSeq(moved, 1, Len(moved) - 1) ELSE moved

\* The binary digits of a double's significand.
Precision == 53

\* A double: a significand m of 53 binary digits and the exponent e of its
\* lowest digit, so the value is m * 2^e; zero has no digits.
Zero == [m |-> <<>>, e |-> 0]

\* Round-to-nearest, ties-to-even, of the number a * 2^e (plus something
\* positive below its lowest digit when sticky) to a double.
RoundToDouble(a, e, sticky) ==
    LET len == BigBitLen(a)
        d == len - Precision
    IN  IF a = <<>> THEN Zero
        ELSE IF d <= 0 THEN [m |-> BigShiftLeft(a, -d), e |-> e + d]
        ELSE LET kept == BigShiftRight(a, d)
                 low == sticky \/ BigLowBits(a, d - 1)
                 up == BigBit(a, d) = 1 /\ (low \/ kept[1] % 2 = 1)
                 m == IF up THEN BigAdd(kept, <<1>>, 0) ELSE kept
             IN  IF BigBitLen(m) > Precision
                 THEN [m |-> BigShiftRight(m, 1), e |-> e + d + 1]
                 ELSE [m |-> m, e |-> e + d]

\* The double of a small non-negative integer.
FromInt(n) == RoundToDouble(BigOf(n), 0, FALSE)

RECURSIVE Quotient(_, _, _, _)
\* Long division to the base 2^LimbBits: the first digits of the quotient with
\* more than Precision + 2 binary digits together, the exponent of the lowest
\* of them, and whether a remainder is left.
Quotient(r, b, acc, e) ==
    IF BigBitLen(acc) >= Precision + 2 \/ (r = 0 /\ acc # <<>>)
    THEN [digits |-> acc, e |-> e, sticky |-> r # 0]
    ELSE LET digit == (r * Base) \div b
         IN  Quotient((r * Base) % b, b,
                      IF acc = <<>> /\ digit = 0 THEN <<>> ELSE <<digit>> \o acc,
                      e - LimbBits)

\* a / b for integers a >= 0, b > 0 held in doubles: the correctly rounded
\* quotient.
Divide(a, b) ==
    IF a = 0 THEN Zero
    ELSE LET q == Quotient(a % b, b, BigOf(a \div b), 0)
         IN  RoundToDouble(q.digits, q.e, q.sticky)

\* x * y: the correctly rounded product.
Multiply(x, y) == RoundToDouble(BigMul(x.m, y.m), x.e + y.e, FALSE)

\* Mutant of percentage: the share is left as a fraction of 1.
percentageAsFraction(mins, totalMinutes) ==
    IF totalMinutes > 0 THEN Divide(mins, totalMinutes) ELSE Zero

\* percentage: totalMinutes > 0 ? (group.mins / totalMinutes) * 100 : 0.
percentage(mins, totalMinutes) ==
    IF totalMinutes > 0 THEN Multiply(Divide(mins, totalMinutes), FromInt(100)) ELSE Zero

----------------------------------------------------------------------------
(* getStatsForRange with the percentages of its buckets, over one day *)

MaxShareLogs == 5

\* The categories of the entries: none, configured ones, and one that reads
\* an inherited property.
ShareCategories ==
    {Undefined, <<"W">>, <<"M">>, <<"c", "o", "n", "s", "t", "r", "u", "c", "t", "o", "r">>}

\* The first entry is stored at 09:00 of the day shown, or in the last slot of
\* the day before; the others follow, one per slot.
ShareStarts == {startOfDay(StatsDate) + 9 * Hour, startOfDay(StatsDate) - SlotLen}

ShareStores ==
    {[i \in 1..Len(cats) |-> Entry(i, first + (i - 1) * SlotLen, <<"a">>, cats[i])] :
        cats \in UNION {[1..n -> ShareCategories] : n \in 0..MaxShareLogs},
        first \in ShareStarts}

InitShare ==
    /\ logs \in ShareStores
    /\ tags = <<>>
    /\ settings = <<>>
    /\ lastCall = Call("init", NoEntry, 0, <<>>, TRUE)
    /\ prevLogs = <<>>
    /\ InitNoApp
    /\ input \in [start : {startOfDay(StatsDate)}, end : {endOfDay(StatsDate)},
                  categories : {<<<<"W">>>>, <<<<"M">>, <<"W">>>>}]
    /\ output = <<>>

\* getStatsForRange with the percentage field of every returned bucket.
GetStatsWithPercentage ==
    /\ lastCall.op = "init"
    /\ LET stats == getStatsForRange(getLogs, input.start, input.end, input.categories)
       IN  output' = [threw |-> stats.threw,
                      data |-> [i \in 1..Len(stats.data) |->
                                   [name |-> stats.data[i].name,
                                    value |-> stats.data[i].value,
                                    percentage |-> percentage(stats.data[i].value,
                                                              stats.totalMinutes)]],
                      totalMinutes |-> stats.totalMinutes]
    /\ lastCall' = Call("getStatsForRange", NoEntry, 0, <<>>, TRUE)
    /\ UNCHANGED <<storeVars, appVars, input, prevLogs>>

NextShare == GetStatsWithPercentage

SpecShare == InitShare /\ [][NextShare]_vars

----------------------------------------------------------------------------
(* Week and day ranges: utils/timeUtils.ts startOfWeek, endOfWeek, getDateRange *)

\* Date.prototype.getDay: 0 for Sunday up to 6 for Saturday.  Day 0 of the
\* time scale is a Thursday, as 1 January 1970 was.
getDay(d) == ((d \div Day) + 4) % 7

\* Mutant of startOfWeek: a day before weekStartsOn is not wrapped to the week
\* before.
startOfWeekNoWrap(date, weekStartsOn) ==
    LET d == startOfDay(date)
    IN  d - (getDay(d) - weekStartsOn) * Day

\* startOfWeek(date, { weekStartsOn }).
startOfWeek(date, weekStartsOn) ==
    LET d == startOfDay(date)
        day == getDay(d)
        diff == (IF day < weekStartsOn THEN 7 ELSE 0) + day - weekStartsOn
    IN  d - diff * Day

\* endOfWeek(date, { weekStartsOn }): six days on, at 23:59:59.999.
endOfWeek(date, weekStartsOn) ==
    LET d == startOfWeek(date, weekStartsOn) + 6 * Day
    IN  startOfDay(d) + Day - 1

\* getDateRange(date, type).
getDateRange(date, type) ==
    IF type = "day"
    THEN [start |-> startOfDay(date), end |-> addDays(startOfDay(date), 1)]
    ELSE [start |-> startOfWeek(date, 1), end |-> endOfWeek(date, 1)]

\* The range of StatsView's primaryStats for viewDate in the given mode.
primaryStatsRange(viewDate, mode) ==
    IF mode = "week"
    THEN [start |-> startOfWeek(viewDate, 1), end |-> endOfWeek(viewDate, 1)]
    ELSE [start |-> startOfDay(viewDate), end |-> endOfDay(viewDate)]

\* Reference dates: the first and last second, a slot start and a moment inside
\* a slot of each of RangeDays days from day 20 on.
RangeDays == 14
RangeDates ==
    {(20 + k) * Day + t : k \in 0..(RangeDays - 1),
                          t \in {0, 9 * Hour, 14 * Hour + 20 * Minute, Day - 1}}

\* Entry times: the last slot of the day before the reference date, slots of
\* its day, and midnight of the day after.
RangeEntryTimes(date) ==
    {startOfDay(date) + t : t \in {0 - SlotLen, 0, 9 * Hour, Day - SlotLen, Day}}

InitRange ==
    /\ InitStorage
    /\ lastCall = Call("init", NoEntry, 0, <<>>, TRUE)
    /\ prevLogs = <<>>
    /\ InitNoApp
    /\ \E date \in RangeDates :
          input \in [date : {date}, type : {"day", "week"},
                     timestamp : RangeEntryTimes(date)]
    /\ output = <<>>

\* primaryStats and getDateRange each build the range of input.date; the entry
\* at input.timestamp is tested against both with isWithinInterval.
GetDateRange ==
    /\ lastCall.op = "init"
    /\ LET stats == primaryStatsRange(input.date, input.type)
           range == getDateRange(input.date, input.type)
       IN  output' = [stats |-> stats,
                      range |-> range,
                      inStats |-> isWithinInterval(input.timestamp, stats.start, stats.end),
                      inRange |-> isWithinInterval(input.timestamp, range.start, range.end)]
    /\ lastCall' = Call("getDateRange", NoEntry, 0, <<>>, TRUE)
    /\ UNCHANGED <<storeVars, appVars, input, prevLogs>>

NextRange == GetDateRange

SpecRange == InitRange /\ [][NextRange]_vars

----------------------------------------------------------------------------
(* parseImportText applied to pasted texts of a few lines *)

MaxImportLines == 2

\* Lines of a pasted text: plain notes, blank lines, well-formed lines with and
\* without a tag, and lines that come close to the pattern.
ImportLines ==
    {<<"n", "o", "t", "e">>,
     <<>>,
     <<" ", " ">>,
     <<"9", ":", "0", "7", " ", "b", " ", "#", "W", "o", "r", "k">>,
     <<"0", "9", ":", "1", "5", " ", " ", "a", "#">>,
     <<"0", "9", ":", "0", "0", " ", "b">>,
     <<"9", ":", "5", " ", "x">>,
     <<"1", "0", ":", "0", "0", " ", "a", "#", "b", " ", "c", " ", "#", "d">>,
     <<"1", "2", "3", ":", "0", "0", " ", "x">>,
     <<"0", "9", ":", "0", "0">>,
     <<" ", "1", "0", ":", "3", "0", "\t", "#", "x", "_", "1", " ", "y", " ">>}

RECURSIVE JoinLines(_)
\* The text whose lines these are.
JoinLines(lines) ==
    IF lines = <<>> THEN <<>>
    ELSE IF Len(lines) = 1 THEN lines[1]
    ELSE lines[1] \o <<"\n">> \o JoinLines(Tail(lines))

ImportDate == 3 * Day + 11 * Hour + 2 * Minute

InitImport ==
    /\ InitStorage
    /\ InitNoApp
    /\ input \in [lines : UNION {[1..n -> ImportLines] : n \in 1..MaxImportLines},
                  baseDate : {ImportDate}]
    /\ output = <<>>

ParseImportText ==
    /\ lastCall.op = "init"
    /\ output' = parseImportText(JoinLines(input.lines), input.baseDate)
    /\ lastCall' = Call("parseImportText", NoEntry, 0, <<>>, TRUE)
    /\ UNCHANGED <<storeVars, appVars, input, prevLogs>>

NextImport == ParseImportText

SpecImport == InitImport /\ [][NextImport]_vars

----------------------------------------------------------------------------
(* The store over a storage whose reads can fail *)

\* getLocalStorage(STORAGE_KEYS.LOGS, []): the stored collection, or the
\* default when getItem or JSON.parse raises.
getLocalStorageLogs(readable) == IF readable THEN logs ELSE <<>>

\* db.saveLog during which the read of the stored collection fails; the write
\* that follows succeeds.
SaveLogUnreadable(entry) ==
    /\ logs' = saveLog(getLocalStorageLogs(FALSE), entry)
    /\ lastCall' = Call("saveLog", entry, entry.id, <<entry.timestamp>>, FALSE)
    /\ prevLogs' = logs
    /\ UNCHANGED <<tags, settings, appVars, pureVars>>

FaultyEntries == BackupEntries \cup {BackupLate}

NextFaulty ==
    \/ \E entry \in FaultyEntries : SaveLog(entry)
    \/ \E id \in BackupIds : DeleteLog(id)
    \/ \E entry \in FaultyEntries : SaveLogUnreadable(entry)

SpecFaulty == InitStore /\ [][NextFaulty]_vars

----------------------------------------------------------------------------
(* The store over a storage whose reads and writes can fail *)

\* getLocalStorage(key, defaultValue): the parsed item, or the default when
\* getItem or JSON.parse raises, which is caught.
getLocalStorage(item, defaultValue, readable) == IF readable THEN item ELSE defaultValue

\* Mutant of setLocalStorage: the error of setItem is not caught.
setLocalStorageNoCatch(item, value, writable) ==
    [item |-> IF writable THEN value ELSE item, raised |-> ~writable]

\* setLocalStorage(key, value): the item afterwards and whether the call
\* raised.  A setItem that raises leaves the item as it was and is caught.
setLocalStorage(item, value, writable) ==
    [item |-> IF writable THEN value ELSE item, raised |-> FALSE]

StorageKeys == {"logs", "settings", "tags"}

\* The state of the storage during one call: whether reads succeed, and the
\* keys whose writes succeed.
StorageStates == [readable : BOOLEAN, writable : SUBSET StorageKeys]

FailingEntries == {BackupEarly, BackupLate, Entry(2, 9 * Hour, <<"b">>, Undefined)}

FailingSettings == {SettingsRecord(22, 4, <<<<"W">>>>), SettingsRecord(8, 16, <<>>)}

FailingDocs ==
    {Doc(FALSE, <<>>, <<>>, <<>>),
     Doc(TRUE, <<<<BackupLate>>>>, <<SettingsRecord(9, 17, <<<<"W">>, <<"M">>>>)>>,
         <<<<<<"a">>>>>>),
     Doc(TRUE, <<<<>>>>, <<>>, <<>>)}

\* What a call leaves for its caller: the items before it, what it returned,
\* and whether it raised.
Outcome(returned, raised) ==
    [before |-> [logs |-> logs, settings |-> settings, tags |-> tags],
     returned |-> returned, raised |-> raised]

\* db.getLogs(), db.getTags() and db.getSettings() in storage state st.
GetAllOn(st) ==
    /\ output' = Outcome([logs |-> getLocalStorage(logs, <<>>, st.readable),
                          tags |-> getLocalStorage(tags, <<>>, st.readable),
                          settings |-> SettingsFrom(getLocalStorage(settings, <<>>,
                                                                    st.readable))],
                         FALSE)
    /\ input' = st
    /\ lastCall' = Call("get", NoEntry, 0, <<>>, TRUE)
    /\ prevLogs' = logs
    /\ UNCHANGED <<storeVars, appVars>>

\* db.saveLog(entry) in storage state st.
SaveLogOn(entry, st) ==
    LET newLogs == saveLog(getLocalStorage(logs, <<>>, st.readable), entry)
        written == setLocalStorage(logs, newLogs, "logs" \in st.writable)
    IN  /\ logs' = written.item
        /\ output' = Outcome(newLogs, written.raised)
        /\ input' = st
        /\ lastCall' = Call("saveLog", entry, entry.id, <<entry.timestamp>>, TRUE)
        /\ prevLogs' = logs
        /\ UNCHANGED <<tags, settings, appVars>>

\* db.deleteLog(id) in storage state st.
DeleteLogOn(id, st) ==
    LET newLogs == deleteLog(getLocalStorage(logs, <<>>, st.readable), id)
        written == setLocalStorage(logs, newLogs, "logs" \in st.writable)
    IN  /\ logs' = written.item
        /\ output' = Outcome(newLogs, written.raised)
        /\ input' = st
        /\ lastCall' = Call("deleteLog", NoEntry, id, <<>>, TRUE)
        /\ prevLogs' = logs
        /\ UNCHANGED <<tags, settings, appVars>>

\* db.saveSettings(s) in storage state st.
SaveSettingsOn(s, st) ==
    LET written == setLocalStorage(settings, <<s>>, "settings" \in st.writable)
    IN  /\ settings' = written.item
        /\ output' = Outcome(<<>>, written.raised)
        /\ input' = st
        /\ lastCall' = Call("saveSettings", NoEntry, 0, <<>>, TRUE)
        /\ prevLogs' = logs
        /\ UNCHANGED <<logs, tags, appVars>>

\* db.restoreData(jsonString) in storage state st: the values restoreData
\* passes on go through setLocalStorage key by key; whatever is raised inside
\* is caught by restoreData, which then returns false.
RestoreDataOn(doc, st) ==
    LET r == restoreData(doc)
        writtenLogs == setLocalStorage(logs, r.logs, "logs" \in st.writable)
        writtenSettings == setLocalStorage(settings, r.settings, "settings" \in st.writable)
        writtenTags == setLocalStorage(tags, r.tags, "tags" \in st.writable)
        caught == writtenLogs.raised \/ writtenSettings.raised \/ writtenTags.raised
    IN  /\ logs' = writtenLogs.item
        /\ settings' = writtenSettings.item
        /\ tags' = writtenTags.item
        /\ output' = Outcome(r.ok /\ ~caught, FALSE)
        /\ input' = st
        /\ lastCall' = Call("restoreData", NoEntry, 0, <<>>, r.ok /\ ~caught)
        /\ prevLogs' = logs
        /\ UNCHANGED appVars

NextFailing ==
    \E st \in StorageStates :
        \/ GetAllOn(st)
        \/ \E entry \in FailingEntries : SaveLogOn(entry, st)
        \/ \E id \in BackupIds : DeleteLogOn(id, st)
        \/ \E s \in FailingSettings : SaveSettingsOn(s, st)
        \/ \E doc \in FailingDocs : RestoreDataOn(doc, st)

SpecFailing == InitStore /\ [][NextFailing]_vars

----------------------------------------------------------------------------
(* The day's text for the clipboard: utils/timeUtils.ts generateClipboardText *)

DigitChars == <<"0", "1", "2", "3", "4", "5", "6", "7", "8", "9">>

\* n.toString().padStart(2, '0') for n in 0..99.
PadStart2(n) == <<DigitChars[(n \div 10) + 1], DigitChars[(n % 10) + 1]>>

\* formatTime(timestamp): format(new Date(timestamp), 'HH:mm').
formatTime(timestamp) == PadStart2(getHours(timestamp)) \o <<":">> \o PadStart2(getMinutes(timestamp))

NoLogsText ==
    <<"N", "o", " ", "l", "o", "g", "s", " ", "f", "o", "r", " ", "t", "h", "i", "s", " ",
      "d", "a", "y", ".">>

\* Mutant of generateClipboardText: the list passed in is sorted, then filtered.
generateClipboardTextSortsFirst(ls, date) ==
    LET sorted == SortByTimestamp(ls)
        dayLogs == SelectSeq(sorted, LAMBDA l :
                       l.timestamp >= startOfDay(date) /\ l.timestamp <= endOfDay(date))
    IN  [text |-> IF dayLogs = <<>> THEN NoLogsText
                  ELSE JoinLines([i \in 1..Len(dayLogs) |->
                           formatTime(dayLogs[i].timestamp) \o <<" ">>
                               \o dayLogs[i].description]),
         logs |-> sorted]

\* generateClipboardText(logs, date): the text, and the caller's list after the
\* call.  filter makes a new list, and it is that list which sort orders in
\* place.
generateClipboardText(ls, date) ==
    LET dayStart == startOfDay(date)
        dayEnd == endOfDay(date)
        dayLogs == SelectSeq(ls, LAMBDA l : l.timestamp >= dayStart /\ l.timestamp <= dayEnd)
        sorted == SortByTimestamp(dayLogs)
    IN  [text |-> IF Len(dayLogs) = 0 THEN NoLogsText
                  ELSE JoinLines([i \in 1..Len(sorted) |->
                           formatTime(sorted[i].timestamp) \o <<" ">>
                               \o sorted[i].description]),
         logs |-> ls]

MaxClipLogs == 3

\* Entries of the day copied, of the last slot before it and of the first
\* after it.
ClipEntries ==
    {Entry(1, ts, d, Undefined) :
        ts \in {startOfDay(StatsDate) - SlotLen, startOfDay(StatsDate),
                startOfDay(StatsDate) + 9 * Hour + 7 * Minute,
                startOfDay(StatsDate) + Day - SlotLen, startOfDay(StatsDate) + Day},
        d \in {<<"a">>, <<"b", " ", "c">>}}

\* Lists in any order.
ClipLists == UNION {[1..n -> ClipEntries] : n \in 0..MaxClipLogs}

InitClip ==
    /\ InitStorage
    /\ InitNoApp
    /\ input \in [logs : ClipLists, date : {StatsDate}]
    /\ output = <<>>

GenerateClipboardText ==
    /\ lastCall.op = "init"
    /\ output' = generateClipboardText(input.logs, input.date)
    /\ lastCall' = Call("generateClipboardText", NoEntry, 0, <<>>, TRUE)
    /\ UNCHANGED <<storeVars, appVars, input, prevLogs>>

NextClip == GenerateClipboardText

SpecClip == InitClip /\ [][NextClip]_vars

----------------------------------------------------------------------------
(* Claims about the store *)

Timestamps(ls) == {ls[i].timestamp : i \in 1..Len(ls)}
AtTimestamp(ls, ts) == {i \in 1..Len(ls) : ls[i].timestamp = ts}
WithId(ls, id) == {i \in 1..Len(ls) : ls[i].id = id}

\* C1: after any sequence of saveLog and deleteLog calls from an empty store,
\* the persisted collection holds at most one entry per distinct timestamp.
C1_OneEntryPerTimestamp ==
    \A i, j \in 1..Len(logs) : logs[i].timestamp = logs[j].timestamp => i = j

\* C1 witness: a save onto an occupied timestamp has happened and the store
\* holds several entries.
C1_Witness ==
    /\ lastCall.op = "saveLog"
    /\ lastCall.entry.timestamp \in Timestamps(prevLogs)
    /\ Len(logs) >= 2

\* C3: saveLog(entry) at an occupied timestamp leaves the number of entries
\* unchanged and the entry at that timestamp is exactly the new one; at a free
\* timestamp the number of entries grows by exactly one.
C3_UpsertSize ==
    lastCall.op = "saveLog" =>
        LET e == lastCall.entry
        IN  IF e.timestamp \in Timestamps(prevLogs)
            THEN /\ Len(logs) = Len(prevLogs)
                 /\ \A i \in AtTimestamp(logs, e.timestamp) : logs[i] = e
                 /\ AtTimestamp(logs, e.timestamp) # {}
            ELSE Len(logs) = Len(prevLogs) + 1

\* C3 witness: a save replaced an entry with different content at its
\* timestamp.
C3_Witness ==
    /\ lastCall.op = "saveLog"
    /\ \E i \in 1..Len(prevLogs) :
          /\ prevLogs[i].timestamp = lastCall.entry.timestamp
          /\ prevLogs[i] # lastCall.entry
    /\ Len(logs) >= 2

\* C6: deleteLog(id) removes the entry with that id when present and changes
\* no other entry (the rest stays, in the same order); when no entry has that
\* id the collection is unchanged.  The call has no failing path.
C6_DeleteById ==
    lastCall.op = "deleteLog" =>
        LET id == lastCall.id
            kept == {i \in 1..Len(prevLogs) : prevLogs[i].id # id}
        IN  /\ WithId(logs, id) = {}
            /\ Len(logs) = Cardinality(kept)
            /\ \A i \in kept :
                  logs[Cardinality({j \in kept : j <= i})] = prevLogs[i]
            /\ WithId(prevLogs, id) = {} => logs = prevLogs

\* C6 witness: a delete removed an entry from a store that keeps another one.
C6_Witness ==
    /\ lastCall.op = "deleteLog"
    /\ WithId(prevLogs, lastCall.id) # {}
    /\ Len(logs) >= 1
    /\ Len(logs) < Len(prevLogs)

IsAscending(ls) ==
    \A i \in 1..(Len(ls) - 1) : ls[i].timestamp <= ls[i + 1].timestamp

\* C2: after any mutation of the entry store (saveLog, deleteLog or a
\* successful restoreData), in any order and any number of times, the
\* persisted entry list is in ascending timestamp order.
C2_AscendingAfterMutation ==
    (\/ lastCall.op \in {"saveLog", "deleteLog"}
     \/ lastCall.op = "restoreData" /\ lastCall.ok)
        => IsAscending(logs)

----------------------------------------------------------------------------
(* Claims about the slot grid *)

\* The instant hour:00 of the calendar day that holds date.
HourOfDay(date, hour) == (date \div Day) * Day + hour * Hour

\* C7: for endHour > startHour, getDaySlots returns exactly
\* (endHour - startHour) * 4 timestamps, the first is startHour:00 of the given
\* day, and consecutive timestamps differ by exactly 15 minutes.
C7_DayGrid ==
    (lastCall.op = "getDaySlots" /\ input.endHour > input.startHour) =>
        /\ Len(output) = (input.endHour - input.startHour) * 4
        /\ output[1] = HourOfDay(input.date, input.startHour)
        /\ \A i \in 1..(Len(output) - 1) : output[i + 1] - output[i] = 15 * Minute

\* C7 witness: the grid of 9:00 to 17:00 has been computed for a day given by an
\* instant that is not midnight.
C7_Witness ==
    /\ lastCall.op = "getDaySlots"
    /\ input.startHour = 9 /\ input.endHour = 17
    /\ input.date % Day # 0
    /\ Len(output) = 32

\* C8: for endHour <= startHour, getDaySlots returns exactly
\* (endHour - startHour + 24) * 4 timestamps, 15 minutes apart, starting at
\* startHour:00 of the given day and ending at endHour:00 of the next day;
\* startHour = endHour gives 96 slots, never an empty grid.
C8_OvernightGrid ==
    (lastCall.op = "getDaySlots" /\ input.endHour <= input.startHour) =>
        /\ Len(output) = (input.endHour - input.startHour + 24) * 4
        /\ output # <<>>
        /\ output[1] = HourOfDay(input.date, input.startHour)
        /\ output[Len(output)] + 15 * Minute = HourOfDay(input.date, 24 + input.endHour)
        /\ input.endHour = input.startHour => Len(output) = 96
        /\ \A i \in 1..(Len(output) - 1) : output[i + 1] - output[i] = 15 * Minute

\* C8 witness: the grid of 22:00 to 4:00 has been computed and has 24 slots,
\* the last ones after midnight.
C8_Witness ==
    /\ lastCall.op = "getDaySlots"
    /\ input.startHour = 22 /\ input.endHour = 4
    /\ Len(output) = 24
    /\ output[Len(output)] > HourOfDay(input.date, 24)

----------------------------------------------------------------------------
(* Claims about the suggestion ranking *)

\* The weight the claim gives an age, in tenths.
ClaimWeight(age) ==
    CASE age <= 48 * Hour -> 10
      [] 48 * Hour < age /\ age <= 72 * Hour -> 8
      [] 72 * Hour < age /\ age <= 168 * Hour -> 2
      [] 168 * Hour < age /\ age <= 4320 * Hour -> 1
      [] age > 4320 * Hour -> 0

RECURSIVE ClaimScore(_, _, _)
\* The sum of the claim's weights over the entries of ls with index in S.
ClaimScore(ls, nowMs, S) ==
    IF S = {} THEN 0
    ELSE LET i == CHOOSE j \in S : TRUE
         IN  ClaimWeight(nowMs - ls[i].timestamp) + ClaimScore(ls, nowMs, S \ {i})

\* The entries whose trimmed description is the non-empty string d.
UsesOf(ls, d) == {i \in 1..Len(ls) : d # <<>> /\ Trim(ls[i].description) = d}

ScoreOf(scores, d) ==
    LET at == {i \in 1..Len(scores) : scores[i].desc = d}
    IN  IF at = {} THEN <<>> ELSE <<scores[CHOOSE i \in at : TRUE].score>>

C10_StaleNeverSuggested ==
    lastCall.op = "getWeightedSuggestions" =>
        \A i \in 1..Len(logs) :
            LET d == Trim(logs[i].description)
            IN  (/\ d # <<>>
                 /\ \A j \in UsesOf(logs, d) : input.now - logs[j].timestamp > 4320 * Hour)
                => /\ ScoreOf(output.scores, d) = <<0>>
                   /\ d \notin Range(output.result)

----------------------------------------------------------------------------
(* Claims about the App handlers *)

\* C4: after any sequence of single-line submissions, bulk submissions and
\* text imports through the App handlers, every stored timestamp is the start
\* of a 15-minute slot: minute in {0, 15, 30, 45}, seconds 0.
C4_SlotAligned ==
    \A i \in 1..Len(logs) :
        /\ getMinutes(logs[i].timestamp) \in {0, 15, 30, 45}
        /\ getSeconds(logs[i].timestamp) = 0

\* C5: whenever content is re-submitted for a timestamp that already holds an
\* entry (single-line submit, bulk submit covering the slot, or text import of
\* that time), the entry stored there afterwards has the same id as before.
C5_IdStable ==
    lastCall.op \in {"handleLogSubmit", "handleImportText"} =>
        \A k \in 1..Len(lastCall.stamps) :
            \A i \in AtTimestamp(prevLogs, lastCall.stamps[k]) :
                \A j \in AtTimestamp(logs, lastCall.stamps[k]) :
                    logs[j].id = prevLogs[i].id

----------------------------------------------------------------------------
(* Claims about the category lookup *)

\* The entries no older than 30 days that carry a category and whose
\* description, normalised by Norm, is the normalised text.
Candidates(ls, text, nowMs, Norm(_)) ==
    {i \in 1..Len(ls) :
        /\ nowMs - ls[i].timestamp <= ThirtyDays
        /\ Truthy(ls[i].category)
        /\ Truthy(ls[i].description)
        /\ Norm(ls[i].description) = ToLowerCase(Trim(text))}

\* The result is the category of a most recent entry among those in M.
MostRecentOf(ls, M, result) ==
    \E i \in M :
        /\ \A j \in M : ls[j].timestamp <= ls[i].timestamp
        /\ result = ls[i].category

TrimmedLower(str) == ToLowerCase(Trim(str))

\* C11: for a store sorted ascending by timestamp and a non-blank text, if at
\* least one entry no older than 30 days has a non-empty category and a
\* description whose trimmed, lowercased form equals the trimmed, lowercased
\* text, findLastCategoryForText returns the category of the most recent such
\* entry.
C11_TrimmedMatch ==
    (/\ lastCall.op = "findLastCategoryForText"
     /\ IsAscending(logs)
     /\ Trim(input.text) # <<>>)
        => LET M == Candidates(logs, input.text, input.now, TrimmedLower)
           IN  M # {} => MostRecentOf(logs, M, output)

\* C11 amended: the same, for a description whose lowercased form (not
\* trimmed) equals the trimmed, lowercased text.
C11_ExactMatch ==
    (/\ lastCall.op = "findLastCategoryForText"
     /\ IsAscending(logs)
     /\ Trim(input.text) # <<>>)
        => LET M == Candidates(logs, input.text, input.now, ToLowerCase)
           IN  M # {} => MostRecentOf(logs, M, output)

\* C11 witness: two entries of different age and category match " A "; the
\* category of the later one is returned.
C11_Witness ==
    /\ lastCall.op = "findLastCategoryForText"
    /\ input.text = <<" ", "A", " ">>
    /\ Len(logs) = 2
    /\ logs[1].timestamp < logs[2].timestamp
    /\ Candidates(logs, input.text, input.now, ToLowerCase) = {1, 2}
    /\ logs[1].category # logs[2].category
    /\ output = logs[2].category

\* C12: findLastCategoryForText returns none when the text is empty or
\* whitespace, and returns none when every entry matching the text is older
\* than 30 days; a match 5 days old is returned.
C12_NoneOutsideWindow ==
    lastCall.op = "findLastCategoryForText" =>
        LET matching == {i \in 1..Len(logs) :
                            /\ Truthy(logs[i].description)
                            /\ TrimmedLower(logs[i].description) = TrimmedLower(input.text)}
        IN  /\ Trim(input.text) = <<>> => output = Undefined
            /\ (\A i \in matching : input.now - logs[i].timestamp > ThirtyDays)
                  => output = Undefined
            /\ (/\ Len(logs) = 1
                /\ matching = {1}
                /\ logs[1].description = TrimmedLower(input.text)
                /\ Truthy(logs[1].category)
                /\ input.now - logs[1].timestamp = 5 * Day)
                  => output = logs[1].category

\* C12 witness: the only entry matches, carries a category and is a second
\* older than 30 days; nothing is returned.
C12_Witness ==
    /\ lastCall.op = "findLastCategoryForText"
    /\ Len(logs) = 1
    /\ logs[1].description = <<"a">>
    /\ logs[1].category = <<"M">>
    /\ input.text = <<" ", "A", " ">>
    /\ input.now - logs[1].timestamp = ThirtyDays + 1
    /\ output = Undefined

----------------------------------------------------------------------------
(* Claims about the statistics *)

\* The entries of the store whose timestamp is inside the range asked for.
InRange == {i \in 1..Len(logs) : input.start <= logs[i].timestamp
                                  /\ logs[i].timestamp <= input.end}

RECURSIVE SumOfValues(_)
SumOfValues(data) == IF data = <<>> THEN 0 ELSE Head(data).value + SumOfValues(Tail(data))

\* The minutes of the returned bucket of that name: 0 when there is none.
BucketMinutes(data, name) ==
    LET at == {i \in 1..Len(data) : data[i].name = name}
    IN  IF at = {} THEN 0 ELSE data[CHOOSE i \in at : TRUE].value

\* C13: the aggregation of a range gives each entry inside the range exactly
\* 15 minutes in exactly one bucket: totalMinutes is 15 times the number of
\* entries in the range and is the sum of the minutes of the returned buckets;
\* entries outside the range add nothing.
C13_QuarterHourEach ==
    lastCall.op = "getStatsForRange" =>
        /\ ~output.threw
        /\ output.totalMinutes = 15 * Cardinality(InRange)
        /\ output.totalMinutes = SumOfValues(output.data)

\* C14: an entry in range is counted in the bucket named entry.category
\* exactly when that name is a configured category; every other entry in range
\* (no category, a category no longer configured, the description stored as
\* category) is counted in the Uncategorized bucket.
C14_RoutedByConfiguredName ==
    lastCall.op = "getStatsForRange" =>
        LET configured == Range(input.categories)
            named(n) == {i \in InRange : logs[i].category = n}
            rest == {i \in InRange : logs[i].category \notin configured}
        IN  /\ ~output.threw
            /\ \A n \in configured \ {UNCATEGORIZED} :
                  BucketMinutes(output.data, n) = 15 * Cardinality(named(n))
            /\ BucketMinutes(output.data, UNCATEGORIZED)
                  = 15 * Cardinality(rest \cup named(UNCATEGORIZED))
            /\ \A k \in 1..Len(output.data) :
                  output.data[k].name \in configured \cup {UNCATEGORIZED}

----------------------------------------------------------------------------
(* Claims about backup and restore *)

\* C15: restoreData on a document that cannot be parsed, or that has no logs
\* field, returns failure and leaves the persisted entries, settings and tags
\* exactly as they were before the call.
C15_RejectLeavesStore ==
    [][\A doc \in BackupDocs :
          (RestoreData(doc) /\ (~doc.parses \/ doc.logs = <<>>))
              => /\ ~lastCall'.ok
                 /\ logs' = logs
                 /\ settings' = settings
                 /\ tags' = tags]_vars

\* C15 witness: a restore has failed on a store that holds entries, settings
\* and tags.
C15_Witness ==
    /\ lastCall.op = "restoreData"
    /\ ~lastCall.ok
    /\ logs # <<>>
    /\ settings # <<>>
    /\ tags # <<>>

\* C16: restoreData on a document that has logs but no settings and/or no tags
\* replaces the persisted entries by the document's logs and leaves each
\* absent field (settings, tags) at its prior persisted value.
C16_AbsentFieldsKept ==
    [][\A doc \in BackupDocs :
          (RestoreData(doc) /\ doc.parses /\ doc.logs # <<>>)
              => /\ lastCall'.ok
                 /\ logs' = doc.logs[1]
                 /\ doc.settings = <<>> => settings' = settings
                 /\ doc.tags = <<>> => tags' = tags]_vars

\* C16 witness: the document with the two entries out of order, which has
\* neither settings nor tags, was restored over saved settings and tags.
C16_Witness ==
    /\ lastCall.op = "restoreData"
    /\ lastCall.ok
    /\ logs = <<BackupLate, BackupEarly>>
    /\ settings # <<>>
    /\ tags # <<>>

\* C17: in every reachable persisted state restoreData(exportData()) succeeds,
\* and afterwards getLogs, getSettings and getTags return the values they
\* returned before the export.
C17_RoundTrip ==
    [][RestoreExport
          => /\ lastCall'.ok
             /\ getLogs' = getLogs
             /\ getSettings' = getSettings
             /\ getTags' = getTags]_vars

\* C17 witness: the round trip was made on a store with no saved settings,
\* with tags, and with an entry that has no category.
C17_Witness ==
    /\ lastCall.op = "restoreExport"
    /\ lastCall.ok
    /\ \E i \in 1..Len(logs) : logs[i].category = Undefined
    /\ tags # <<>>
    /\ settings = <<[startHour |-> CONST_DEFAULT.startHour,
                     endHour |-> CONST_DEFAULT.endHour,
                     categories |-> DEFAULT_CATEGORIES]>>

----------------------------------------------------------------------------
(* Claims about the text import *)

\* A line of the form HH:mm <description> once trimmed: one or two digits, a
\* colon, two digits, white space, and something after it.
IsImportLine(line) ==
    LET t == Trim(line)
    IN  \E k \in {1, 2} :
            /\ Len(t) > k + 4
            /\ \A i \in 1..k : t[i] \in Digits
            /\ t[k + 1] = ":"
            /\ t[k + 2] \in Digits /\ t[k + 3] \in Digits
            /\ t[k + 4] \in Whitespace

\* The first #word token of a description, or Undefined when it has none.
FirstHashWord(description) ==
    LET starts == {i \in 1..(Len(description) - 1) :
                      description[i] = "#" /\ description[i + 1] \in WordChars}
    IN  IF starts = {} THEN Undefined
        ELSE LET i == CHOOSE a \in starts : \A b \in starts : a <= b
                 ends == {j \in (i + 1)..Len(description) :
                             \A m \in (i + 1)..j : description[m] \in WordChars}
                 j == CHOOSE a \in ends : \A b \in ends : b <= a
             IN  SubSeq(description, i + 1, j)

\* C18: parseImportText skips every line that is not of the form
\* HH:mm <description> and returns one result, in input order, for every line
\* that is; the category of a result is the first #word token of its
\* description, and is absent when the description has none.
C18_SkipsBadKeepsGood ==
    lastCall.op = "parseImportText" =>
        LET good == SelectSeq(input.lines, IsImportLine)
        IN  /\ Len(output) = Len(good)
            /\ \A i \in 1..Len(output) :
                  LET t == Trim(good[i])
                      d == output[i].description
                  IN  /\ d # <<>>
                      /\ Head(d) \notin Whitespace
                      /\ Len(d) <= Len(t)
                      /\ d = SubSeq(t, Len(t) - Len(d) + 1, Len(t))
                      /\ \A m \in 6..(Len(t) - Len(d)) : t[m] \in Whitespace
                      /\ output[i].category = FirstHashWord(d)

\* C18 witness: a note followed by a tagged line gives one result, for the
\* tagged line, with category Work.
C18_Witness ==
    /\ lastCall.op = "parseImportText"
    /\ Len(input.lines) = 2
    /\ input.lines[1] = <<"n", "o", "t", "e">>
    /\ input.lines[2] = <<"9", ":", "0", "7", " ", "b", " ", "#", "W", "o", "r", "k">>
    /\ Len(output) = 1
    /\ output[1].description = <<"b", " ", "#", "W", "o", "r", "k">>
    /\ output[1].category = <<"W", "o", "r", "k">>

----------------------------------------------------------------------------
(* Claims about the store over a failing storage *)

\* C19: saveLog(entry) leaves every stored entry whose timestamp differs from
\* entry.timestamp present and unchanged (same id, description and category),
\* in every storage state, one in which the stored collection cannot be read
\* included.
C19_OthersKept ==
    lastCall.op = "saveLog" =>
        \A i \in 1..Len(prevLogs) :
            prevLogs[i].timestamp # lastCall.entry.timestamp
                => \E j \in 1..Len(logs) : logs[j] = prevLogs[i]

----------------------------------------------------------------------------
(* Claims about the settings dialog *)

\* The grid of the day shown under the settings in force.
GridNow == getDaySlots(currentDate, getSettings.startHour, getSettings.endHour)

\* C20: changing startHour, endHour or the category list through
\* updateSetting never changes the persisted entries; an entry whose timestamp
\* is not in the new grid stays stored and is only absent from the day's slot
\* list, which always has exactly one slot per getDaySlots timestamp, each
\* paired with the stored entry of equal timestamp if there is one.
C20_SettingsKeepEntries ==
    LET grid == GridNow
        slots == timeSlots
        stored == Timestamps(logs)
    IN  /\ lastCall.op = "updateSetting" => logs = prevLogs
        /\ Len(slots) = Len(grid)
        /\ \A i \in 1..Len(slots) :
              /\ slots[i].timestamp = grid[i]
              /\ grid[i] \notin stored => slots[i].log = <<>>
              /\ \A j \in 1..Len(logs) :
                    logs[j].timestamp = grid[i] => slots[i].log = <<logs[j]>>
        /\ \A j \in 1..Len(logs) :
              logs[j].timestamp \notin Range(grid)
                  => \A i \in 1..Len(slots) : slots[i].log # <<logs[j]>>

\* C20 witness: after a change of the start hour the store holds an entry
\* before the new grid, which no slot shows, and one inside it, which its slot
\* shows.
C20_Witness ==
    LET grid == GridNow
        slots == timeSlots
    IN  /\ lastCall.op = "updateSetting"
        /\ getSettings.startHour > 9
        /\ \E j \in 1..Len(logs) : logs[j].timestamp \notin Range(grid)
        /\ \E i \in 1..Len(slots) : slots[i].log # <<>>

----------------------------------------------------------------------------
(* Claims about bulk submission *)

\* C21: a bulk submission of k non-empty lines with active timestamp T stores,
\* in line order, one entry per line at T, T + 15 min, ..., T + (k - 1) * 15
\* min, each replacing whatever was stored at its slot and each carrying the
\* one category that was passed in; entries at other slots stay, and
\* afterwards the selected timestamp is T + k * 15 min.
C21_BulkFillsSlots ==
    [][\A text \in SubmitTexts, category \in SubmitCategories :
          HandleLogSubmitBulk(text, category) =>
              LET T == activeTimestamp
                  lines == SelectSeq(TrimAll(Split(text, "\n")), LAMBDA l : l # <<>>)
                  k == Len(lines)
                  filled == {T + (i - 1) * 15 * Minute : i \in 1..k}
              IN  /\ \A i \in 1..k :
                        LET at == AtTimestamp(logs', T + (i - 1) * 15 * Minute)
                        IN  /\ Cardinality(at) = 1
                            /\ \A j \in at : /\ logs'[j].description = lines[i]
                                             /\ logs'[j].category = category
                  /\ \A j \in 1..Len(logs) :
                        logs[j].timestamp \notin filled
                            => \E m \in 1..Len(logs') : logs'[m] = logs[j]
                  /\ Timestamps(logs') = Timestamps(logs) \cup filled
                  /\ manualSelectedTimestamp' = <<T + k * 15 * Minute>>]_vars

\* C21 witness: a bulk submission of two lines has replaced an entry at its
\* first slot and has selected the slot after its second.
C21_Witness ==
    /\ lastCall.op = "handleLogSubmit"
    /\ Len(lastCall.stamps) = 2
    /\ lastCall.stamps[1] \in Timestamps(prevLogs)
    /\ \A i \in AtTimestamp(logs, lastCall.stamps[1]) : logs[i] \notin Range(prevLogs)
    /\ manualSelectedTimestamp = <<lastCall.stamps[2] + 15 * Minute>>

----------------------------------------------------------------------------
(* Claims about the order of the suggestions *)

\* The index of the first stored entry whose trimmed description is d.
FirstUse(ls, d) ==
    CHOOSE i \in UsesOf(ls, d) : \A j \in UsesOf(ls, d) : i <= j

\* C22, without the order of ties: at most `limit` descriptions are returned,
\* all distinct and non-empty after trimming, in non-increasing score order.
C22_BoundedDistinctDescending ==
    lastCall.op = "getWeightedSuggestions" =>
        LET result == output.result
        IN  /\ Len(result) <= input.limit
            /\ \A k, m \in 1..Len(result) : result[k] = result[m] => k = m
            /\ \A k \in 1..Len(result) : Trim(result[k]) # <<>>
            /\ \A k, m \in 1..Len(result) :
                  k < m => ScoreOf(output.scores, result[k])[1]
                               >= ScoreOf(output.scores, result[m])[1]

\* C22: getWeightedSuggestions returns at most `limit` descriptions, all
\* distinct and non-empty after trimming, ordered by non-increasing score, and
\* descriptions of equal score appear in the order in which they first occur
\* in the stored entry list.
C22_TiesInFirstUseOrder ==
    /\ C22_BoundedDistinctDescending
    /\ lastCall.op = "getWeightedSuggestions" =>
          LET result == output.result
          IN  \A k, m \in 1..Len(result) :
                  (/\ k < m
                   /\ ScoreOf(output.scores, result[k]) = ScoreOf(output.scores, result[m]))
                  => FirstUse(logs, result[k]) < FirstUse(logs, result[m])

----------------------------------------------------------------------------
(* Claims about the order of the buckets *)

\* The place of a bucket name in the initialization order: the configured
\* categories in list order, then Uncategorized.
InitPlace(categories, name) ==
    LET order == categories \o <<UNCATEGORIZED>>
    IN  CHOOSE i \in 1..Len(order) :
            order[i] = name /\ \A j \in 1..(i - 1) : order[j] # name

\* C23, without the order of ties: the buckets of a result come in
\* non-increasing order of minutes, and each is a configured category or
\* Uncategorized.
C23_DescendingMinutes ==
    (lastCall.op = "getStatsForRange" /\ ~output.threw) =>
        /\ \A k \in 1..Len(output.data) :
              output.data[k].name \in Range(input.categories) \cup {UNCATEGORIZED}
        /\ \A k, m \in 1..Len(output.data) :
              k < m => output.data[k].value >= output.data[m].value

\* C23: the buckets of a result come in non-increasing order of minutes, and
\* buckets of equal minutes keep the initialization order (configured
\* categories in list order, then Uncategorized), with no special place for
\* Uncategorized.
C23_TiesInInitOrder ==
    /\ C23_DescendingMinutes
    /\ (lastCall.op = "getStatsForRange" /\ ~output.threw) =>
          \A k, m \in 1..Len(output.data) :
              (k < m /\ output.data[k].value = output.data[m].value)
              => InitPlace(input.categories, output.data[k].name)
                     < InitPlace(input.categories, output.data[m].name)

----------------------------------------------------------------------------
(* Claims about the percentages of the buckets *)

\* The exponent of 2 to which values are compared: 2^-40 is about 10^-12.
Tolerance == 0 - 40

\* Whether |x - y| <= t for natural numbers of any size.
BigNear(x, y, t) == BigLeq(x, BigAdd(y, t, 0)) /\ BigLeq(y, BigAdd(x, t, 0))

\* Whether the double p is the number mins * 100 / total, and whether it is
\* within 2^Tolerance of it: both sides are multiplied by total * 2^-p.e.
IsShare(p, mins, total) ==
    BigMul(p.m, BigOf(total)) = BigShiftLeft(BigOf(mins * 100), 0 - p.e)

NearShare(p, mins, total) ==
    BigNear(BigMul(p.m, BigOf(total)),
            BigShiftLeft(BigOf(mins * 100), 0 - p.e),
            BigShiftLeft(BigOf(total), Tolerance - p.e))

\* The lowest exponent among the percentages of the buckets.
LowestExponent(data) ==
    CHOOSE e \in {data[k].percentage.e : k \in 1..Len(data)} :
        \A k \in 1..Len(data) : e <= data[k].percentage.e

RECURSIVE SumOfPercentages(_, _)
\* The exact sum of the percentages, as a multiple of 2^low.
SumOfPercentages(data, low) ==
    IF data = <<>> THEN <<>>
    ELSE BigAdd(BigShiftLeft(Head(data).percentage.m, Head(data).percentage.e - low),
                SumOfPercentages(Tail(data), low), 0)

\* C24 as stated: in a result no bucket has zero minutes, each bucket's
\* percentage equals its minutes * 100 / totalMinutes, the percentages sum to
\* 100 whenever totalMinutes > 0, and with no entry in range there are no
\* buckets and totalMinutes is 0.
C24_ExactPercentages ==
    (lastCall.op = "getStatsForRange" /\ ~output.threw) =>
        LET data == output.data
            total == output.totalMinutes
            low == LowestExponent(data)
        IN  /\ \A k \in 1..Len(data) : data[k].value > 0
            /\ \A k \in 1..Len(data) : IsShare(data[k].percentage, data[k].value, total)
            /\ total > 0 =>
                  SumOfPercentages(data, low) = BigShiftLeft(BigOf(100), 0 - low)
            /\ InRange = {} => data = <<>> /\ total = 0

\* C24 amended: in a result no bucket has zero minutes, each bucket's
\* percentage is within 2^-40 of its minutes * 100 / totalMinutes, the
\* percentages sum to 100 within 2^-40 whenever totalMinutes > 0, and with no
\* entry in range there are no buckets and totalMinutes is 0.
C24_RoundedPercentages ==
    (lastCall.op = "getStatsForRange" /\ ~output.threw) =>
        LET data == output.data
            total == output.totalMinutes
            low == LowestExponent(data)
        IN  /\ \A k \in 1..Len(data) : data[k].value > 0
            /\ \A k \in 1..Len(data) : NearShare(data[k].percentage, data[k].value, total)
            /\ total > 0 =>
                  BigNear(SumOfPercentages(data, low),
                          BigShiftLeft(BigOf(100), 0 - low),
                          BigShiftLeft(<<1>>, Tolerance - low))
            /\ InRange = {} => data = <<>> /\ total = 0

\* C24 witness: three Work entries and two untagged ones in the day give Work
\* 45 min 60 %, Uncategorized 30 min 40 %, total 75.
C24_Witness ==
    /\ lastCall.op = "getStatsForRange"
    /\ Cardinality(InRange) = 5
    /\ Cardinality({i \in InRange : logs[i].category = <<"W">>}) = 3
    /\ Cardinality({i \in InRange : logs[i].category = Undefined}) = 2
    /\ output = [threw |-> FALSE,
                 data |-> <<[name |-> <<"W">>, value |-> 45, percentage |-> FromInt(60)],
                            [name |-> UNCATEGORIZED, value |-> 30,
                             percentage |-> FromInt(40)]>>,
                 totalMinutes |-> 75]

----------------------------------------------------------------------------
(* Claims about the week and day ranges *)

\* C25: for every reference date the week range starts at midnight of a
\* Monday that is the reference date's day or at most 6 days before it, and
\* ends in the last moment of the Sunday 6 days later, so the window
\* contains the reference date, a Sunday included.
C25_MondayToSunday ==
    (lastCall.op = "getDateRange" /\ input.type = "week") =>
        \A r \in {output.stats, output.range} :
            /\ r.start % Day = 0
            /\ getDay(r.start) = 1
            /\ \E k \in 0..6 : startOfDay(input.date) = r.start + k * Day
            /\ r.end = r.start + 7 * Day - 1
            /\ getDay(r.end) = 0
            /\ r.start <= input.date /\ input.date <= r.end

\* C25 witness: the week of a reference date in the last second of a Sunday
\* starts at midnight six days before.
C25_Witness ==
    /\ lastCall.op = "getDateRange"
    /\ input.type = "week"
    /\ getDay(input.date) = 0
    /\ input.date % Day = Day - 1
    /\ output.stats.start = startOfDay(input.date) - 6 * Day
    /\ output.stats.end = input.date

\* C26: the day range of a date D, as primaryStats builds it and as
\* getDateRange(D, 'day') builds it, contains under isWithinInterval exactly
\* the timestamps on calendar date D; an entry at 00:00 of the next day is
\* not counted in D.
C26_DayRangeIsTheDay ==
    (lastCall.op = "getDateRange" /\ input.type = "day") =>
        LET onDate == startOfDay(input.timestamp) = startOfDay(input.date)
        IN  /\ output.inStats <=> onDate
            /\ output.inRange <=> onDate

\* C26, for the range of primaryStats alone.
C26_StatsDayRangeIsTheDay ==
    (lastCall.op = "getDateRange" /\ input.type = "day") =>
        (output.inStats <=> startOfDay(input.timestamp) = startOfDay(input.date))

----------------------------------------------------------------------------
(* Claims about storage failures *)

\* C27: storage failures do not reach the callers of the store.  With a
\* storage that cannot be read, getLogs and getTags return the empty list and
\* getSettings the defaults; a saveLog, deleteLog, saveSettings or restoreData
\* during which a write fails returns without raising, and the item under
\* every key whose write failed is as it was before.
C27_FailuresContained ==
    lastCall.op \in {"get", "saveLog", "deleteLog", "saveSettings", "restoreData"} =>
        /\ ~output.raised
        /\ (lastCall.op = "get" /\ ~input.readable) =>
              output.returned = [logs |-> <<>>,
                                 tags |-> <<>>,
                                 settings |-> [startHour |-> CONST_DEFAULT.startHour,
                                               endHour |-> CONST_DEFAULT.endHour,
                                               categories |-> DEFAULT_CATEGORIES]]
        /\ lastCall.op # "get" =>
              /\ "logs" \notin input.writable => logs = output.before.logs
              /\ "settings" \notin input.writable => settings = output.before.settings
              /\ "tags" \notin input.writable => tags = output.before.tags

\* C27 witness: a restoreData of a full backup during which the write of the
\* entries fails and the write of the settings succeeds returns true, with the
\* stored entries as before and the settings replaced.
C27_Witness ==
    /\ lastCall.op = "restoreData"
    /\ lastCall.ok
    /\ input.writable = {"settings"}
    /\ logs = output.before.logs
    /\ logs # <<>>
    /\ settings # output.before.settings
    /\ ~output.raised

----------------------------------------------------------------------------
(* Claims about the clipboard text *)

\* The entries of the list given that lie on the date given.
OnDate == {i \in 1..Len(input.logs) :
              startOfDay(input.logs[i].timestamp) = startOfDay(input.date)}

\* C28: the text has exactly one line `HH:mm <description>` per entry of the
\* list whose timestamp lies on the date, in ascending timestamp order
\* whatever the order of the list; it is the fixed placeholder line when no
\* entry lies on the date; and the list given is left as it was.
C28_OneLinePerEntryOfTheDay ==
    lastCall.op = "generateClipboardText" =>
        LET lines == Split(output.text, "\n")
            day == OnDate
        IN  /\ output.logs = input.logs
            /\ day = {} => output.text = NoLogsText
            /\ day # {} =>
                  /\ Len(lines) = Cardinality(day)
                  /\ \E p \in [1..Len(lines) -> day] :
                        /\ \A k, m \in 1..Len(lines) : p[k] = p[m] => k = m
                        /\ \A k, m \in 1..Len(lines) :
                              k < m => input.logs[p[k]].timestamp
                                           <= input.logs[p[m]].timestamp
                        /\ \A k \in 1..Len(lines) :
                              LET l == input.logs[p[k]]
                              IN  /\ SubSeq(lines[k], 1, 6)
                                        = PadStart2((l.timestamp % Day) \div Hour) \o <<":">>
                                            \o PadStart2((l.timestamp % Hour) \div Minute)
                                            \o <<" ">>
                                  /\ SubSeq(lines[k], 7, Len(lines[k])) = l.description

\* C28 witness: a list with the day's later entry before its earlier one and
\* an entry of the next midnight gives the two lines of the day, earlier first.
C28_Witness ==
    /\ lastCall.op = "generateClipboardText"
    /\ Len(input.logs) = 3
    /\ input.logs[1].timestamp = startOfDay(input.date) + Day - SlotLen
    /\ input.logs[2].timestamp = startOfDay(input.date) + Day
    /\ input.logs[3].timestamp = startOfDay(input.date) + 9 * Hour + 7 * Minute
    /\ input.logs[1].description = <<"a">>
    /\ input.logs[3].description = <<"b", " ", "c">>
    /\ output.text = <<"0", "9", ":", "0", "7", " ", "b", " ", "c", "\n",
                       "2", "3", ":", "4", "5", " ", "a">>
    /\ output.logs = input.logs

----------------------------------------------------------------------------
(* Claims about entry ids *)

\* C29: starting from an empty store, after any sequence of single-line
\* submissions, bulk submissions, text imports and deletions through the App
\* handlers, with every new id fresh, no two stored entries share an id, and
\* so a deletion by id removes at most one entry.
C29_UniqueIds ==
    /\ \A i, j \in 1..Len(logs) : logs[i].id = logs[j].id => i = j
    /\ lastCall.op \in {"handleLogDelete", "handleClearSlot"} =>
          /\ Len(prevLogs) - Len(logs) <= 1
          /\ \A i \in 1..Len(prevLogs) :
                prevLogs[i].id # lastCall.id => prevLogs[i] \in Range(logs)

\* C29 witness: an entry was re-submitted under its old id next to another
\* entry, and the two ids differ.
C29_Witness ==
    /\ lastCall.op = "handleLogSubmit"
    /\ lastCall.stamps = <<lastCall.entry.timestamp>>
    /\ \E i \in 1..Len(prevLogs) :
          /\ prevLogs[i].id = lastCall.id
          /\ prevLogs[i].timestamp = lastCall.entry.timestamp
    /\ Len(logs) = 2
    /\ logs[1].id # logs[2].id

----------------------------------------------------------------------------
(* Claims about the alarm *)

\* C30, first half: when a submission handled by handleLogSubmit, single-line
\* or bulk, has completed, the alarm is cleared.
C30_SubmissionClearsAlarm == lastCall.op = "handleLogSubmit" => ~alarmActive

\* C30, second half: an alarm that is active stays active through every step
\* that is not such a submission.
C30_AlarmStaysUntilSubmission ==
    [][(alarmActive /\ ~alarmActive') => lastCall'.op = "handleLogSubmit"]_vars

\* C30: every submission handled by handleLogSubmit, single-line or bulk,
\* leaves the alarm cleared when it completes, and the alarm, once raised by
\* the quarter-hour check for an unlogged previous slot, stays active until
\* such a submission.
C30_ClearedBySubmissionOnly ==
    []C30_SubmissionClearsAlarm /\ C30_AlarmStaysUntilSubmission

====
